---- MODULE Spec2Model ----
(***************************************************************************)
(* A model of the lustre_exporter text-extraction engine                   *)
(* (package sources).  Texts are sequences of one-character strings, so    *)
(* that the regular expressions, splits and trims of the Go code are       *)
(* evaluated on characters.                                                *)
(***************************************************************************)
EXTENDS Integers, Sequences, FiniteSets, TLC

VARIABLES pc, input, output

vars == <<pc, input, output>>

(***************************************************************************)
(* Characters and strings                                                  *)
(***************************************************************************)
Min(S) == CHOOSE x \in S : \A y \in S : x <= y

Digits == <<"0","1","2","3","4","5","6","7","8","9">>

LowerLetters == <<"a","b","c","d","e","f","g","h","i","j","k","l","m","n","o","p","q","r","s","t","u","v","w","x","y","z">>

UpperLetters == <<"A","B","C","D","E","F","G","H","I","J","K","L","M","N","O","P","Q","R","S","T","U","V","W","X","Y","Z">>

Range(s) == {s[i] : i \in 1..Len(s)}

IsDigit(c) == c \in Range(Digits)

DigitVal(c) == (CHOOSE i \in 1..10 : Digits[i] = c) - 1

\* unicode.ToUpper on the letters of the modelled alphabet
ToUpperChar(c) ==
  IF c \in Range(LowerLetters)
  THEN UpperLetters[CHOOSE i \in 1..26 : LowerLetters[i] = c]
  ELSE c

\* strings.ToUpper
ToUpper(s) == [i \in 1..Len(s) |-> ToUpperChar(s[i])]

\* strings.HasPrefix / strings.HasSuffix
HasPrefix(s, p) == Len(s) >= Len(p) /\ SubSeq(s, 1, Len(p)) = p

HasSuffix(s, p) == Len(s) >= Len(p) /\ SubSeq(s, Len(s) - Len(p) + 1, Len(s)) = p

\* strings.TrimPrefix / strings.TrimSuffix: remove one occurrence when present
TrimPrefix(s, p) == IF HasPrefix(s, p) THEN SubSeq(s, Len(p) + 1, Len(s)) ELSE s

TrimSuffix(s, p) == IF HasSuffix(s, p) THEN SubSeq(s, 1, Len(s) - Len(p)) ELSE s

(***************************************************************************)
(* Unsigned 64-bit integers, held as decimal digit values, most            *)
(* significant first and without leading zeros (zero is <<0>>).            *)
(***************************************************************************)
Reverse(s) == [i \in 1..Len(s) |-> s[Len(s) + 1 - i]]

RECURSIVE StripZeros(_)
StripZeros(d) ==
  IF Len(d) > 1 /\ Head(d) = 0 THEN StripZeros(Tail(d)) ELSE d

RECURSIVE AddLE(_, _, _)
AddLE(a, b, carry) ==
  IF a = <<>> /\ b = <<>>
  THEN IF carry = 0 THEN <<>> ELSE <<carry>>
  ELSE LET x == IF a = <<>> THEN 0 ELSE Head(a)
           y == IF b = <<>> THEN 0 ELSE Head(b)
           s == x + y + carry
       IN <<s % 10>> \o AddLE(IF a = <<>> THEN <<>> ELSE Tail(a),
                              IF b = <<>> THEN <<>> ELSE Tail(b), s \div 10)

RECURSIVE SubLE(_, _, _)
SubLE(a, b, borrow) ==
  IF a = <<>> THEN <<>>
  ELSE LET y == IF b = <<>> THEN 0 ELSE Head(b)
           d == Head(a) - y - borrow
       IN <<IF d < 0 THEN d + 10 ELSE d>>
            \o SubLE(Tail(a), IF b = <<>> THEN <<>> ELSE Tail(b),
                     IF d < 0 THEN 1 ELSE 0)

BigAdd(a, b) == StripZeros(Reverse(AddLE(Reverse(a), Reverse(b), 0)))

\* a - b for a >= b
BigSub(a, b) == StripZeros(Reverse(SubLE(Reverse(a), Reverse(b), 0)))

BigLess(a, b) ==
  \/ Len(a) < Len(b)
  \/ /\ Len(a) = Len(b)
     /\ \E i \in 1..Len(a) : a[i] < b[i] /\ \A j \in 1..(i - 1) : a[j] = b[j]

\* 2^64 = 18446744073709551616
TwoPow64 == <<1,8,4,4,6,7,4,4,0,7,3,7,0,9,5,5,1,6,1,6>>

\* x * 2^k in unbounded arithmetic
RECURSIVE BigMulPow2(_, _)
BigMulPow2(x, k) ==
  IF k = 0 THEN x
  ELSE LET t == BigAdd(x, x)
       IN IF Len(t) > 0 THEN BigMulPow2(t, k - 1) ELSE t

\* uint64 multiplication by 2^k: the product modulo 2^64
RECURSIVE Uint64MulPow2(_, _)
Uint64MulPow2(x, k) ==
  IF k = 0 THEN x
  ELSE LET t == BigAdd(x, x)
       IN IF BigLess(t, TwoPow64)
          THEN Uint64MulPow2(t, k - 1)
          ELSE Uint64MulPow2(BigSub(t, TwoPow64), k - 1)

\* strconv.ParseUint(s, 10, 64): digits only, no sign, value below 2^64
ParseUint(s) ==
  IF Len(s) = 0 \/ \E i \in 1..Len(s) : ~IsDigit(s[i])
  THEN [err |-> TRUE, val |-> <<0>>]
  ELSE LET v == StripZeros([i \in 1..Len(s) |-> DigitVal(s[i])])
       IN IF BigLess(v, TwoPow64) THEN [err |-> FALSE, val |-> v]
          ELSE [err |-> TRUE, val |-> <<0>>]

\* strconv.FormatUint(v, 10)
FormatUint(v) == [i \in 1..Len(v) |-> Digits[v[i] + 1]]

(***************************************************************************)
(* convertToBytes                                                          *)
(***************************************************************************)
\* math.Pow(2, 10), math.Pow(2, 20), math.Pow(2, 30) as exponents of 2
MultiplierExp(finalChar) ==
  CASE finalChar = "K" -> 10
    [] finalChar = "M" -> 20
    [] finalChar = "G" -> 30

convertToBytes(s) ==
  IF Len(s) < 1 THEN s
  ELSE LET uppercaseS == ToUpper(s)
           finalChar == uppercaseS[Len(uppercaseS)]
       IN IF finalChar \in {"K", "M", "G"}
          THEN LET numericS == TrimSuffix(uppercaseS, <<finalChar>>)
                   byteVal == ParseUint(numericS)
               IN IF byteVal.err THEN s
                  ELSE FormatUint(Uint64MulPow2(byteVal.val, MultiplierExp(finalChar)))
          ELSE s \* passthrough integers and IO sizes that we don't expect

(***************************************************************************)
(* Inputs of convertToBytes: size labels                                   *)
(***************************************************************************)
RECURSIVE NatDigits(_)
NatDigits(n) == IF n < 10 THEN <<n>> ELSE NatDigits(n \div 10) \o <<n % 10>>

\* strconv.Itoa for a natural number
FormatNat(n) == FormatUint(NatDigits(n))

MaxSize == 12

SizePrefixes ==
  {FormatNat(n) : n \in 0..MaxSize} \cup
  { <<>>, <<"0","0","7">>, <<"1","0","0">>, <<"5","1","2">>,
    <<"1","7","1","7","9","8","6","9","1","8","3">>, <<"1","7","1","7","9","8","6","9","1","8","4">>,
    <<"1","8","0","1","4","3","9","8","5","0","9","4","8","1","9","8","3">>, <<"1","8","0","1","4","3","9","8","5","0","9","4","8","1","9","8","4">>,
    <<"1","8","4","4","6","7","4","4","0","7","3","7","0","9","5","5","1","6","1","5">>, <<"1","8","4","4","6","7","4","4","0","7","3","7","0","9","5","5","1","6","1","6">>,
    <<"-","1">>, <<"+","1">>, <<"1",".","5">>, <<"1","K">>, <<"H","o","t","G","a","r","b","a","g","e">> }

SizeSuffixes ==
  { <<>>, <<"K">>, <<"k">>, <<"M">>, <<"m">>, <<"G">>, <<"g">>, <<"B">>,
    <<"K","G">>, <<"T">> }

SizeLabels == {p \o x : p \in SizePrefixes, x \in SizeSuffixes}

None == [kind |-> "none"]

InitBytes ==
  /\ pc = "call"
  /\ input \in {[fn |-> "convertToBytes", s |-> s] : s \in SizeLabels}
  /\ output = None

CallConvertToBytes ==
  /\ pc = "call"
  /\ input.fn = "convertToBytes"
  /\ output' = [kind |-> "string", s |-> convertToBytes(input.s)]
  /\ pc' = "done"
  /\ UNCHANGED input

NextBytes == CallConvertToBytes

SpecBytes == InitBytes /\ [][NextBytes]_vars

(***************************************************************************)
(* Claims about convertToBytes (checked under SpecBytes)                   *)
(***************************************************************************)
IsUint64Decimal(p) ==
  /\ Len(p) >= 1
  /\ \A i \in 1..Len(p) : IsDigit(p[i])
  /\ BigLess(StripZeros([i \in 1..Len(p) |-> DigitVal(p[i])]), TwoPow64)

DecimalValue(p) == StripZeros([i \in 1..Len(p) |-> DigitVal(p[i])])

SuffixExp(c) ==
  CASE c \in {"K", "k"} -> 10
    [] c \in {"M", "m"} -> 20
    [] c \in {"G", "g"} -> 30

\* C7: for every string made of an unsigned 64-bit decimal integer n followed
\* by one suffix K, M or G in either case, convertToBytes returns the decimal
\* string of n*2^10, n*2^20 or n*2^30; every other string is returned
\* unchanged.
C7_ConvertToBytesProduct ==
  (pc = "done" /\ input.fn = "convertToBytes") =>
    LET s == input.s
        p == SubSeq(s, 1, Len(s) - 1)
    IN IF Len(s) >= 2 /\ s[Len(s)] \in {"K", "k", "M", "m", "G", "g"}
          /\ IsUint64Decimal(p)
       THEN output.s = FormatUint(BigMulPow2(DecimalValue(p), SuffixExp(s[Len(s)])))
       ELSE output.s = s

(***************************************************************************)
(* parseFileElements                                                       *)
(***************************************************************************)
\* The elements of a finite set of integers in increasing order
SortedSeq(S) ==
  [i \in 1..Cardinality(S) |-> CHOOSE b \in S : Cardinality({x \in S : x < b}) = i - 1]

\* strings.Split(s, sep) for a one-character separator
Split(s, sep) ==
  LET cuts == SortedSeq({0, Len(s) + 1} \cup {i \in 1..Len(s) : s[i] = sep})
  IN [k \in 1..(Len(cuts) - 1) |-> SubSeq(s, cuts[k] + 1, cuts[k + 1] - 1)]

\* Go panics when a slice index is out of range
Panic == [kind |-> "panic"]

ParseFileElementsMutNoSuffix(path, directoryDepth) ==
  LET pathElements == Split(path, "/")
      pathLen == Len(pathElements)
  IN IF pathLen - 2 - directoryDepth < 0 THEN Panic
     ELSE [kind |-> "ok", name |-> pathElements[pathLen],
           nodeName |-> TrimPrefix(pathElements[pathLen - 1 - directoryDepth],
                                   <<"f","i","l","t","e","r","-">>)]

parseFileElements(path, directoryDepth) ==
  LET pathElements == Split(path, "/")
      pathLen == Len(pathElements)
  IN IF pathLen < 1 THEN [kind |-> "error"]
     ELSE IF pathLen - 2 - directoryDepth < 0 THEN Panic
     ELSE [kind |-> "ok",
           name |-> pathElements[pathLen],
           nodeName |-> TrimSuffix(TrimPrefix(pathElements[pathLen - 1 - directoryDepth],
                                              <<"f","i","l","t","e","r","-">>),
                                   <<"_","U","U","I","D">>)]

(***************************************************************************)
(* Inputs of parseFileElements: paths as the resolver builds them, joined  *)
(* from segments with "/"                                                  *)
(***************************************************************************)
RECURSIVE Join(_, _)
Join(segs, sep) ==
  IF Len(segs) = 0 THEN <<>>
  ELSE IF Len(segs) = 1 THEN segs[1]
  ELSE segs[1] \o sep \o Join(Tail(segs), sep)

MaxDepth == 1

MaxMid == 1

LeadSegments ==
  { <<>>, << <<>> >>, << <<>>, <<"p","r","o","c">>, <<"f","s">> >>,
    << <<>>, <<"p","r","o","c">>, <<"f","s">>, <<"l","u","s","t","r","e">>, <<"o","b","d","f","i","l","t","e","r">> >> }

NodeSegments ==
  { <<>>, <<"l","u","s","t","r","e">>, <<"O","S","T","0","0","0","0">>, <<"f","i","l","t","e","r","-","l","u","s","t","r","e","f","s","-","O","S","T","0","0","0","5","_","U","U","I","D">>,
    <<"f","i","l","t","e","r","-","a">>, <<"a","_","U","U","I","D">>, <<"f","i","l","t","e","r","-","_","U","U","I","D">>, <<"a","f","i","l","t","e","r","-","b">>,
    <<"a","_","U","U","I","D","b">>, <<"f","i","l","t","e","r","-","f","i","l","t","e","r","-","a">>, <<"a","_","U","U","I","D","_","U","U","I","D">> }

MidSegments == {[i \in 1..n |-> <<"p","o","o","l">>] : n \in 0..MaxMid}

NameSegments == { <<>>, <<"f","i","l","e","s","f","r","e","e">>, <<"g","r","a","n","t","_","r","a","t","e">>, <<"h","e","a","l","t","h","_","c","h","e","c","k">> }

PathSegmentLists ==
  {l \o <<n>> \o m \o <<f>> :
     l \in LeadSegments, n \in NodeSegments, m \in MidSegments, f \in NameSegments}
  \cup {<<f>> : f \in NameSegments}

InitPath ==
  /\ pc = "call"
  /\ input \in {[fn |-> "parseFileElements", segs |-> segs,
                 path |-> Join(segs, <<"/">>), depth |-> d] :
                  segs \in PathSegmentLists, d \in 0..MaxDepth}
  /\ output = None

CallParseFileElements ==
  /\ pc = "call"
  /\ input.fn = "parseFileElements"
  /\ output' = parseFileElements(input.path, input.depth)
  /\ pc' = "done"
  /\ UNCHANGED input

NextPath == CallParseFileElements

SpecPath == InitPath /\ [][NextPath]_vars

(***************************************************************************)
(* Claims about parseFileElements (checked under SpecPath)                 *)
(***************************************************************************)
StripNodeName(seg) ==
  LET a == IF Len(seg) >= 7 /\ SubSeq(seg, 1, 7) = <<"f","i","l","t","e","r","-">>
           THEN SubSeq(seg, 8, Len(seg)) ELSE seg
  IN IF Len(a) >= 5 /\ SubSeq(a, Len(a) - 4, Len(a)) = <<"_","U","U","I","D">>
     THEN SubSeq(a, 1, Len(a) - 5) ELSE a

\* C8: parseFileElements(path, depth) returns as name the last "/"-separated
\* segment of path and as node name the segment (1 + depth) positions before
\* the last one, with a leading "filter-" and a trailing "_UUID" removed when
\* present and the segment otherwise unchanged.
C8_ParseFileElements ==
  (pc = "done" /\ input.fn = "parseFileElements"
     /\ Len(input.segs) >= input.depth + 2) =>
    /\ output.kind = "ok"
    /\ output.name = input.segs[Len(input.segs)]
    /\ output.nodeName = StripNodeName(input.segs[Len(input.segs) - 1 - input.depth])

\* A path with a filter-prefixed, _UUID-suffixed segment at depth 1 has been
\* resolved to the stripped node name
C8_Witness ==
  /\ pc = "done" /\ input.fn = "parseFileElements"
  /\ input.depth = 1
  /\ input.path = <<"/","p","r","o","c","/","f","s","/","l","u","s","t","r","e","/","o","b","d","f","i","l","t","e","r","/","f","i","l","t","e","r","-","l","u","s","t","r","e","f","s","-","O","S","T","0","0","0","5","_","U","U","I","D","/","p","o","o","l","/","g","r","a","n","t","_","r","a","t","e">>
  /\ output.kind = "ok"
  /\ output.name = <<"g","r","a","n","t","_","r","a","t","e">>
  /\ output.nodeName = <<"l","u","s","t","r","e","f","s","-","O","S","T","0","0","0","5">>

(***************************************************************************)
(* strconv.ParseFloat and strings.TrimSpace                                *)
(*                                                                         *)
(* A float64 is held as its decimal expansion: sign, integer digits        *)
(* without leading zeros and fraction digits without trailing zeros.  The  *)
(* decimal spellings (optional sign, digits, optional point) are parsed;   *)
(* every other text is a syntax error.                                     *)
(***************************************************************************)
RECURSIVE StripTrailingZeros(_)
StripTrailingZeros(d) ==
  IF Len(d) > 0 /\ d[Len(d)] = 0 THEN StripTrailingZeros(SubSeq(d, 1, Len(d) - 1)) ELSE d

ParseFloat(s) ==
  LET signed == Len(s) > 0 /\ s[1] \in {"+", "-"}
      body == IF signed THEN Tail(s) ELSE s
      dots == {i \in 1..Len(body) : body[i] = "."}
      ok == /\ Cardinality(dots) <= 1
            /\ \A i \in 1..Len(body) : IsDigit(body[i]) \/ body[i] = "."
            /\ \E i \in 1..Len(body) : IsDigit(body[i])
      dot == IF dots = {} THEN Len(body) + 1 ELSE CHOOSE i \in dots : TRUE
      intDigits == [i \in 1..(dot - 1) |-> DigitVal(body[i])]
      fracDigits == [i \in 1..(Len(body) - dot) |-> DigitVal(body[dot + i])]
  IN IF ~ok THEN [err |-> TRUE]
     ELSE [err |-> FALSE,
           val |-> [int |-> IF dot = 1 THEN <<0>> ELSE StripZeros(intDigits),
                    frac |-> StripTrailingZeros(fracDigits),
                    neg |-> signed /\ s[1] = "-"]]

\* the Go comparison result == 0 (true of 0, 0.0 and -0)
IsZero(v) == v.int = <<0>> /\ v.frac = <<>>

WhiteSpace == {" ", "\t", "\n", "\r", "\f"}

TrimSpace(s) ==
  LET keep == {i \in 1..Len(s) : s[i] \notin WhiteSpace}
  IN IF keep = {} THEN <<>>
     ELSE SubSeq(s, Min(keep), CHOOSE j \in keep : \A k \in keep : k <= j)

(***************************************************************************)
(* lustreSysSource.parseTextFile: the health_check sentinel                *)
(***************************************************************************)
healthCheckHealthy == <<"1">>

healthCheckUnhealthy == <<"0">>

\* what the handler closure of lustreSysSource.Update sends to the channel
HealthObservation(nodeType, nodeName, promName, value) ==
  [name |-> promName, labels |-> <<"component", "target">>,
   labelValues |-> <<nodeType, nodeName>>, value |-> value]

Ret(err, sent) == [kind |-> "ret", err |-> err, sent |-> sent]

ParseTextFileMutNoTrim(nodeType, path, directoryDepth, promName, file) ==
  LET fe == parseFileElements(path, directoryDepth)
      value == IF file.content = <<"h","e","a","l","t","h","y">>
               THEN ParseFloat(healthCheckHealthy) ELSE ParseFloat(healthCheckUnhealthy)
  IN Ret(FALSE, <<HealthObservation(nodeType, fe.nodeName, promName, value.val)>>)

parseTextFile(nodeType, path, directoryDepth, promName, file) ==
  LET fe == parseFileElements(path, directoryDepth)
  IN IF fe.kind = "panic" THEN Panic
     ELSE IF fe.kind = "error" THEN Ret(TRUE, <<>>)
     ELSE IF ~file.readable THEN Ret(TRUE, <<>>)
     ELSE IF fe.name = <<"h","e","a","l","t","h","_","c","h","e","c","k">>
     THEN LET value == IF TrimSpace(file.content) = <<"h","e","a","l","t","h","y">>
                       THEN ParseFloat(TrimSpace(healthCheckHealthy))
                       ELSE ParseFloat(TrimSpace(healthCheckUnhealthy))
          IN IF value.err THEN Ret(TRUE, <<>>)
             ELSE Ret(FALSE, <<HealthObservation(nodeType, fe.nodeName, promName, value.val)>>)
     ELSE Ret(FALSE, <<>>)

(***************************************************************************)
(* Inputs of the health parser: the paths the glob of basePath/health_check*)
(* resolves to, and file bodies with and without surrounding whitespace    *)
(***************************************************************************)
MaxPad == 1

RECURSIVE SeqsUpTo(_, _)
SeqsUpTo(S, n) ==
  IF n = 0 THEN {<<>>}
  ELSE LET shorter == SeqsUpTo(S, n - 1)
       IN shorter \cup {<<c>> \o t : c \in S, t \in {u \in shorter : Len(u) = n - 1}}

Paddings == SeqsUpTo({" ", "\n", "\t"}, MaxPad)

HealthBodies ==
  { <<>>, <<"h","e","a","l","t","h","y">>, <<"N","O","T"," ","H","E","A","L","T","H","Y">>, <<"L","B","U","G">>, <<"H","e","a","l","t","h","y">>, <<"h","e","a","l","t","h","y","y">>,
    <<"u","n","h","e","a","l","t","h","y">>, <<"h","e","a","l"," ","t","h","y">>, <<"1">>, <<"0">>, <<"h","e","a","l","t","h","y","\n","N","O","T"," ","H","E","A","L","T","H","Y">> }

HealthPaths ==
  { <<"/","s","y","s","/","f","s","/","l","u","s","t","r","e","/","h","e","a","l","t","h","_","c","h","e","c","k">>, <<"s","y","s","/","f","s","/","l","u","s","t","r","e","/","h","e","a","l","t","h","_","c","h","e","c","k">> }

InitHealth ==
  /\ pc = "call"
  /\ input \in {[fn |-> "parseTextFile", path |-> p, lead |-> l, body |-> b,
                 trail |-> t, readable |-> r] :
                  p \in HealthPaths, l \in Paddings, b \in HealthBodies,
                  t \in Paddings, r \in BOOLEAN}
  /\ output = None

\* lustreSysSource.Update for the health_check template on one resolved path
CallParseTextFile ==
  /\ pc = "call"
  /\ input.fn = "parseTextFile"
  /\ output' = parseTextFile("health", input.path, 0, "health_check",
                             [readable |-> input.readable,
                              content |-> input.lead \o input.body \o input.trail])
  /\ pc' = "done"
  /\ UNCHANGED input

NextHealth == CallParseTextFile

SpecHealth == InitHealth /\ [][NextHealth]_vars

(***************************************************************************)
(* Claims about the health parser (checked under SpecHealth)               *)
(***************************************************************************)
FloatOfNat(n) == [int |-> NatDigits(n), frac |-> <<>>, neg |-> FALSE]

\* C10: for every readable health_check file, whatever its content, the
\* health parser emits exactly one observation whose value is 1 if the file
\* body with surrounding whitespace trimmed equals "healthy" and 0 otherwise;
\* no file content makes it return an error.
C10_HealthBinary ==
  (pc = "done" /\ input.fn = "parseTextFile" /\ input.readable) =>
    /\ output.kind = "ret"
    /\ ~output.err
    /\ Len(output.sent) = 1
    /\ output.sent[1].value =
         (IF input.body = <<"h","e","a","l","t","h","y">> THEN FloatOfNat(1) ELSE FloatOfNat(0))

\* A padded "healthy" body has been classified 1
C10_Witness ==
  /\ pc = "done" /\ input.fn = "parseTextFile" /\ input.readable
  /\ input.body = <<"h","e","a","l","t","h","y">> /\ input.lead # <<>> /\ input.trail # <<>>
  /\ Len(output.sent) = 1 /\ output.sent[1].value = FloatOfNat(1)

(***************************************************************************)
(* Regular expressions of proc_common.go, evaluated on character sequences *)
(***************************************************************************)
\* The positions at which the literal lit occurs in text
Occurrences(lit, text) ==
  {j \in 1..(Len(text) - Len(lit) + 1) :
     text[j] = lit[1] /\ SubSeq(text, j, j + Len(lit) - 1) = lit}

\* The first position >= i that is an end of line: the end of the text or a
\* position holding "\n" (where $ matches under the m flag, and where .* stops)
EndOfLine(text, i) ==
  Min({Len(text) + 1} \cup {j \in i..Len(text) : text[j] = "\n"})

\* regexCaptureString(lit + ".*", text): every pattern the callers build is a
\* literal followed by ".*"; the first match starts at the leftmost occurrence
\* of the literal, wherever in its line that is, and runs to the end of the line.
\* The empty pattern matches the empty string.
regexCaptureString(lit, text) ==
  LET occ == IF Len(lit) = 0 THEN {} ELSE Occurrences(lit, text)
  IN IF occ = {} THEN <<>>
     ELSE SubSeq(text, Min(occ), EndOfLine(text, Min(occ) + Len(lit)) - 1)

\* The end (exclusive) of the run of digits starting at i
DigitRunEnd(text, i) ==
  Min({Len(text) + 1} \cup {j \in i..Len(text) : ~IsDigit(text[j])})

\* numRegexPattern [0-9]*\.[0-9]+|[0-9]+ : all non-overlapping matches from
\* position i on, leftmost first, the first alternative preferred
RECURSIVE NumbersFrom(_, _)
NumbersFrom(text, i) ==
  LET starts == {j \in i..Len(text) :
                   \/ IsDigit(text[j])
                   \/ text[j] = "." /\ j < Len(text) /\ IsDigit(text[j + 1])}
  IN IF starts = {} THEN <<>>
     ELSE LET b == Min(starts)
              e1 == DigitRunEnd(text, b)
              withPoint == e1 < Len(text) /\ text[e1] = "." /\ IsDigit(text[e1 + 1])
              e == IF withPoint THEN DigitRunEnd(text, e1 + 1) ELSE e1
          IN <<SubSeq(text, b, e - 1)>> \o NumbersFrom(text, e)

regexCaptureNumbers(textToMatch) == NumbersFrom(textToMatch, 1)

IsWordChar(c) ==
  c \in Range(LowerLetters) \cup Range(UpperLetters) \cup Range(Digits) \cup {"_"}

\* the character class [\d\w\.\_\-\+\s]
IsJobidChar(c) == IsWordChar(c) \/ c \in {".", "_", "-", "+"} \/ c \in WhiteSpace

JobIdLiteral == <<"j","o","b","_","i","d",":">>

\* jobidRegexPattern (?m:job_id:\s*([\d\w\.\_\-\+\s]*)$) tried at the occurrence
\* of "job_id:" at position p: \s* and the group are greedy, and the match must
\* end at an end of line
JobidMatchAt(text, p) ==
  LET a == p + Len(JobIdLiteral)
      W == Min({Len(text) + 1} \cup {j \in a..Len(text) : text[j] \notin WhiteSpace})
      R == Min({Len(text) + 1} \cup {j \in a..Len(text) : ~IsJobidChar(text[j])})
      eols == {e \in a..R : e = Len(text) + 1 \/ (e < R /\ text[e] = "\n")}
      late == {e \in eols : e >= W}
  IN IF eols = {} THEN [matched |-> FALSE, group |-> <<>>]
     ELSE IF late = {} THEN [matched |-> TRUE, group |-> <<>>]
     ELSE [matched |-> TRUE,
           group |-> SubSeq(text, W, (CHOOSE e \in late : \A f \in late : f <= e) - 1)]

regexCaptureJobid(textToMatch) ==
  LET hits == {p \in Occurrences(JobIdLiteral, textToMatch) :
                 JobidMatchAt(textToMatch, p).matched}
  IN IF hits = {} THEN <<>> ELSE JobidMatchAt(textToMatch, Min(hits)).group

\* jobStatsRegexPattern (?ms:job_id:.*?$.*?(?:-|\z)) : all non-overlapping
\* matches from position i on.  A match runs from "job_id:" lazily to the first
\* end of line and from there lazily to the first "-" (included) or to the end
\* of the text.
RECURSIVE JobStatsFrom(_, _)
JobStatsFrom(text, i) ==
  LET occ == {p \in Occurrences(JobIdLiteral, text) : p >= i}
  IN IF occ = {} THEN <<>>
     ELSE LET p == Min(occ)
              e1 == EndOfLine(text, p + Len(JobIdLiteral))
              dashes == {k \in e1..Len(text) : text[k] = "-"}
              last == IF dashes = {} THEN Len(text) ELSE Min(dashes)
          IN <<SubSeq(text, p, last)>> \o JobStatsFrom(text, last + 1)

\* regexCaptureJobStats with a greedy tail: one block from the first header
\* to the last "-" of the text
RegexCaptureJobStatsMutGreedy(textToMatch) ==
  LET occ == Occurrences(JobIdLiteral, textToMatch)
  IN IF occ = {} THEN <<>>
     ELSE LET p == Min(occ)
              e1 == EndOfLine(textToMatch, p + Len(JobIdLiteral))
              dashes == {k \in e1..Len(textToMatch) : textToMatch[k] = "-"}
              last == IF dashes = {} THEN Len(textToMatch)
                      ELSE CHOOSE k \in dashes : \A j \in dashes : j <= k
          IN <<SubSeq(textToMatch, p, last)>> \o JobStatsFrom(textToMatch, last + 1)

regexCaptureJobStats(textToMatch) == JobStatsFrom(textToMatch, 1)

(***************************************************************************)
(* job_stats extractors                                                    *)
(***************************************************************************)
StatsMetric(title, help, value, extraLabel, extraLabelValue) ==
  [title |-> title, help |-> help, value |-> value,
   extraLabel |-> extraLabel, extraLabelValue |-> extraLabelValue]

JobsMetric(jobID, metric) == [jobID |-> jobID, metric |-> metric]

\* a returned (metricList, err) pair
Result(metricList, err) == [kind |-> "ret", metricList |-> metricList, err |-> err]

\* jobStatsHelp and statsHelp are the same text
jobStatsHelp == "Number of operations the filesystem has performed."

statsHelp == "Number of operations the filesystem has performed."

ReadBytes == <<"r","e","a","d","_","b","y","t","e","s">>

WriteBytes == <<"w","r","i","t","e","_","b","y","t","e","s">>

\* opMap of getJobStatsIOMetrics: help text -> (index, pattern); the Go index
\* counts from 0
JobIOHelps ==
  {"readSamplesHelp", "readMinimumHelp", "readMaximumHelp", "readTotalHelp",
   "writeSamplesHelp", "writeMinimumHelp", "writeMaximumHelp", "writeTotalHelp"}

JobIOIndex(helpText) ==
  CASE helpText \in {"readSamplesHelp", "writeSamplesHelp"} -> 0
    [] helpText \in {"readMinimumHelp", "writeMinimumHelp"} -> 1
    [] helpText \in {"readMaximumHelp", "writeMaximumHelp"} -> 2
    [] helpText \in {"readTotalHelp", "writeTotalHelp"} -> 3

JobIOPattern(helpText) ==
  IF helpText \in {"readSamplesHelp", "readMinimumHelp", "readMaximumHelp", "readTotalHelp"}
  THEN ReadBytes ELSE WriteBytes

\* getJobStatsIOMetrics without the zero test of lines 562-564
GetJobStatsIOMetricsMutKeepZero(jobBlock, jobID, promName, helpText) ==
  IF helpText \notin JobIOHelps THEN Result(<<>>, FALSE)
  ELSE LET pattern == JobIOPattern(helpText)
           opStat == regexCaptureString(pattern \o <<":", " ">>, jobBlock)
           opNumbers == regexCaptureNumbers(opStat)
       IN IF Len(opNumbers) < 1 THEN Result(<<>>, FALSE)
          ELSE IF JobIOIndex(helpText) >= Len(opNumbers) THEN Panic
          ELSE LET result == ParseFloat(TrimSpace(opNumbers[JobIOIndex(helpText) + 1]))
               IN IF result.err THEN Result(<<>>, TRUE)
                  ELSE Result(<<JobsMetric(jobID,
                                  StatsMetric(promName, helpText, result.val, "", <<>>))>>,
                              FALSE)

getJobStatsIOMetrics(jobBlock, jobID, promName, helpText) ==
  IF helpText \notin JobIOHelps THEN Result(<<>>, FALSE)
  ELSE LET pattern == JobIOPattern(helpText)
           opStat == regexCaptureString(pattern \o <<":", " ">>, jobBlock)
           opNumbers == regexCaptureNumbers(opStat)
       IN IF Len(opNumbers) < 1 THEN Result(<<>>, FALSE)
          ELSE IF JobIOIndex(helpText) >= Len(opNumbers) THEN Panic
          ELSE LET result == ParseFloat(TrimSpace(opNumbers[JobIOIndex(helpText) + 1]))
               IN IF result.err THEN Result(<<>>, TRUE)
                  ELSE IF IsZero(result.val) THEN Result(<<>>, FALSE)
                  ELSE Result(<<JobsMetric(jobID,
                                  StatsMetric(promName, helpText, result.val, "", <<>>))>>,
                              FALSE)

\* getJobNum without strings.TrimSpace
GetJobNumMutNoTrim(jobBlock) ==
  LET jobID == regexCaptureJobid(jobBlock)
  IN IF jobID = <<>> THEN [kind |-> "ret", jobID |-> <<>>, err |-> TRUE]
     ELSE [kind |-> "ret", jobID |-> jobID, err |-> FALSE]

getJobNum(jobBlock) ==
  LET jobID == regexCaptureJobid(jobBlock)
  IN IF jobID = <<>> THEN [kind |-> "ret", jobID |-> <<>>, err |-> TRUE]
     ELSE [kind |-> "ret", jobID |-> TrimSpace(jobID), err |-> FALSE]

\* operationSlice of getJobStatsOperationMetrics (every index is 0)
JobOperations ==
  << 
     <<"o","p","e","n">>,
     <<"c","l","o","s","e">>,
     <<"m","k","n","o","d">>,
     <<"l","i","n","k">>,
     <<"u","n","l","i","n","k">>,
     <<"m","k","d","i","r">>,
     <<"r","m","d","i","r">>,
     <<"r","e","n","a","m","e">>,
     <<"g","e","t","a","t","t","r">>,
     <<"s","e","t","a","t","t","r">>,
     <<"g","e","t","x","a","t","t","r">>,
     <<"s","e","t","x","a","t","t","r">>,
     <<"s","t","a","t","f","s">>,
     <<"s","y","n","c">>,
     <<"s","a","m","e","d","i","r","_","r","e","n","a","m","e">>,
     <<"c","r","o","s","s","d","i","r","_","r","e","n","a","m","e">>,
     <<"p","u","n","c","h">>,
     <<"d","e","s","t","r","o","y">>,
     <<"c","r","e","a","t","e">>,
     <<"g","e","t","_","i","n","f","o">>,
     <<"s","e","t","_","i","n","f","o">>,
     <<"q","u","o","t","a","c","t","l">> >>

\* the loop of getJobStatsOperationMetrics from catalog entry k on
RECURSIVE JobOperationsFrom(_, _, _, _, _)
JobOperationsFrom(jobBlock, jobID, promName, helpText, k) ==
  IF k > Len(JobOperations) THEN Result(<<>>, FALSE)
  ELSE LET pattern == JobOperations[k]
           opStat == regexCaptureString(pattern \o <<":", " ">>, jobBlock)
           opNumbers == regexCaptureNumbers(opStat)
       IN IF Len(opNumbers) < 1
          THEN JobOperationsFrom(jobBlock, jobID, promName, helpText, k + 1)
          ELSE LET result == ParseFloat(TrimSpace(opNumbers[1]))
               IN IF result.err THEN Result(<<>>, TRUE)
                  ELSE IF IsZero(result.val)
                  THEN JobOperationsFrom(jobBlock, jobID, promName, helpText, k + 1)
                  ELSE LET rest == JobOperationsFrom(jobBlock, jobID, promName, helpText, k + 1)
                       IN IF rest.err THEN rest
                          ELSE Result(<<JobsMetric(jobID,
                                          StatsMetric(promName, helpText, result.val,
                                                      "operation", pattern))>>
                                      \o rest.metricList, FALSE)

getJobStatsOperationMetrics(jobBlock, jobID, promName, helpText) ==
  JobOperationsFrom(jobBlock, jobID, promName, helpText, 1)

\* the loop of parseJobStatsText over the captured blocks from block b on
RECURSIVE ParseJobsFrom(_, _, _, _, _)
ParseJobsFrom(jobs, promName, helpText, hasMultipleVals, b) ==
  IF b > Len(jobs) THEN Result(<<>>, FALSE)
  ELSE LET job == jobs[b]
           num == getJobNum(job)
       IN IF num.err
          THEN \* log.Error(err); continue
               ParseJobsFrom(jobs, promName, helpText, hasMultipleVals, b + 1)
          ELSE LET jobList == IF hasMultipleVals
                              THEN getJobStatsOperationMetrics(job, num.jobID, promName, helpText)
                              ELSE getJobStatsIOMetrics(job, num.jobID, promName, helpText)
               IN IF jobList.kind = "panic" THEN Panic
                  ELSE IF jobList.err THEN Result(<<>>, TRUE)
                  ELSE LET rest == ParseJobsFrom(jobs, promName, helpText, hasMultipleVals, b + 1)
                       IN IF rest.kind = "panic" \/ rest.err THEN rest
                          ELSE Result(jobList.metricList \o rest.metricList, FALSE)

\* parseJobStatsText returning the error of getJobNum instead of continuing
RECURSIVE ParseJobsFromMutAbort(_, _, _, _, _)
ParseJobsFromMutAbort(jobs, promName, helpText, hasMultipleVals, b) ==
  IF b > Len(jobs) THEN Result(<<>>, FALSE)
  ELSE LET job == jobs[b]
           num == getJobNum(job)
       IN IF num.err THEN Result(<<>>, TRUE)
          ELSE LET jobList == IF hasMultipleVals
                              THEN getJobStatsOperationMetrics(job, num.jobID, promName, helpText)
                              ELSE getJobStatsIOMetrics(job, num.jobID, promName, helpText)
               IN IF jobList.kind = "panic" THEN Panic
                  ELSE IF jobList.err THEN Result(<<>>, TRUE)
                  ELSE LET rest == ParseJobsFromMutAbort(jobs, promName, helpText,
                                                         hasMultipleVals, b + 1)
                       IN IF rest.kind = "panic" \/ rest.err THEN rest
                          ELSE Result(jobList.metricList \o rest.metricList, FALSE)

ParseJobStatsTextMutAbort(jobStats, promName, helpText, hasMultipleVals) ==
  LET jobs == regexCaptureJobStats(jobStats)
  IN IF Len(jobs) < 1 THEN Result(<<>>, FALSE)
     ELSE ParseJobsFromMutAbort(jobs, promName, helpText, hasMultipleVals, 1)

parseJobStatsText(jobStats, promName, helpText, hasMultipleVals) ==
  LET jobs == regexCaptureJobStats(jobStats)
  IN IF Len(jobs) < 1 THEN Result(<<>>, FALSE)
     ELSE ParseJobsFrom(jobs, promName, helpText, hasMultipleVals, 1)

(***************************************************************************)
(* Inputs of the job_stats extractors: job blocks in the layout the kernel *)
(* writes (see the fixtures of TestGetJobStats and TestMultipleGetJobStats)*)
(* rendered to text from a list of (name, numbers) lines                   *)
(***************************************************************************)
MaxScale == 1

RECURSIVE Concat(_)
Concat(ss) == IF Len(ss) = 0 THEN <<>> ELSE Head(ss) \o Concat(Tail(ss))

Line(name, nums, unit) == [name |-> name, nums |-> nums, unit |-> unit]

\* "  read_bytes: { samples: 126, unit: bytes, min: 1, max: 2, sum: 3 }"
RenderJobLine(l, pad) ==
  <<" ", " ">> \o l.name \o <<":">> \o pad \o <<"{"," ","s","a","m","p","l","e","s",":">> \o pad
    \o FormatNat(l.nums[1]) \o <<","," ","u","n","i","t",":"," ">> \o l.unit
    \o (IF Len(l.nums) >= 4
        THEN <<","," ","m","i","n",":"," ">> \o FormatNat(l.nums[2]) \o <<","," ","m","a","x",":"," ">>
               \o FormatNat(l.nums[3]) \o <<","," ","s","u","m",":"," ">> \o FormatNat(l.nums[4])
        ELSE <<>>)
    \o <<" ","}","\n">>

SnapshotLine == <<" "," ","s","n","a","p","s","h","o","t","_","t","i","m","e",":"," ","1","4","9","3","3","2","6","9","4","3","\n">>

JobBlock(header, lead, id, trail, lines, pad) ==
  [header |-> header, lead |-> lead, id |-> id, trail |-> trail,
   lines |-> lines, pad |-> pad]

\* a block from its "job_id:" header to the end of its last line
RenderJobBlock(b) ==
  (IF b.header THEN JobIdLiteral \o b.lead \o b.id \o b.trail \o <<"\n">> \o SnapshotLine
   ELSE SnapshotLine)
  \o Concat([i \in 1..Len(b.lines) |-> RenderJobLine(b.lines[i], b.pad)])

Reqs == <<"r","e","q","s">>

Bytes == <<"b","y","t","e","s">>

Compact == <<" ">>

Wide == <<" ", " ", " ", " ">>

\* operation lines in kernel order: every line absent, zero or non-zero
OpVocabulary == <<1, 4, 5, 8, 15>> \* open, link, unlink, rename, samedir_rename

OpLines(f, scale) ==
  LET present == SortedSeq({i \in 1..Len(OpVocabulary) : f[i] # "absent"})
  IN [k \in 1..Len(present) |->
        Line(JobOperations[OpVocabulary[present[k]]],
             <<IF f[present[k]] = "zero" THEN 0 ELSE present[k] * scale>>, Reqs)]

OpAssignments == [1..Len(OpVocabulary) -> {"absent", "zero", "some"}]

ReadNums(scale) ==
  {<<>>, <<0>>, <<3 * scale>>}
  \cup {<<a, b, c, d>> : a \in {0, scale}, b \in {0, 2 * scale},
                         c \in {0, 3 * scale}, d \in {0, 4 * scale}}

WriteNums(scale) == {<<>>, <<0, 0, 0, 0>>, <<5 * scale, 6 * scale, 7 * scale, 8 * scale>>}

IOLines(r, w) ==
  (IF r = <<>> THEN <<>> ELSE <<Line(ReadBytes, r, Bytes)>>)
  \o (IF w = <<>> THEN <<>> ELSE <<Line(WriteBytes, w, Bytes)>>)

JobIdA == <<"2","9">>

JobIdB == <<"a"," ","b",".","-","_","+","1">>

\* a job id with characters outside the class of jobidRegexPattern
JobIdC == <<"k","/","0",":","1",".","0">>

IOFocusBlocks ==
  {JobBlock(TRUE, <<" ">>, id, <<>>, IOLines(r, w) \o ops, Compact) :
     id \in {JobIdA, JobIdB}, r \in UNION {ReadNums(s) : s \in 1..MaxScale},
     w \in UNION {WriteNums(s) : s \in 1..MaxScale},
     ops \in {<<>>, <<Line(JobOperations[1], <<1>>, Reqs)>>}}

OpFocusBlocks ==
  {JobBlock(TRUE, <<" ">>, JobIdA, <<>>, IOLines(r, <<>>) \o OpLines(f, s), Compact) :
     r \in {<<>>, <<1, 2, 3, 4>>}, f \in OpAssignments, s \in 1..MaxScale}

IdFocusBlocks ==
  {JobBlock(TRUE, l, id, t, ops, Compact) :
     l \in {<<>>, <<" ">>, <<" ", " ", " ">>},
     id \in {<<>>, JobIdA, JobIdB, JobIdC},
     t \in {<<>>, <<" ", " ">>},
     ops \in {<<>>, <<Line(JobOperations[1], <<1>>, Reqs)>>}}
  \cup {JobBlock(FALSE, <<>>, <<>>, <<>>, <<Line(JobOperations[1], <<1>>, Reqs)>>, Compact)}

\* the two blocks of TestGetJobStats
FixtureOps(v) ==
  [k \in 1..10 |->
     Line(JobOperations[<<9, 10, 17, 14, 18, 19, 13, 20, 21, 22>>[k]], <<v[k]>>, Reqs)]

FixtureBlocks ==
  {JobBlock(TRUE, Wide, JobIdA, <<>>,
            IOLines(<<126, 1048576, 1048576, 132120576>>,
                    <<262, 1048576, 1048576, 274726912>>)
              \o FixtureOps(<<1, 2, 3, 4, 5, 6, 7, 8, 9, 10>>), Wide),
   JobBlock(TRUE, Wide, <<"3","0">>, <<>>,
            IOLines(<<0, 0, 0, 0>>, <<0, 0, 0, 0>>)
              \o FixtureOps(<<1, 2, 3, 4, 5, 0, 0, 0, 0, 6>>), Wide)}

JobBlocks == IOFocusBlocks \cup OpFocusBlocks \cup IdFocusBlocks \cup FixtureBlocks

\* how a captured block ends: with its last line's newline, with the "-" of
\* the next block's delimiter, or at the end of a text without final newline
BlockTails == {"newline", "dash", "bare"}

BlockText(b, tail) ==
  LET t == RenderJobBlock(b)
  IN CASE tail = "newline" -> t
       [] tail = "dash" -> t \o <<"-">>
       [] tail = "bare" -> SubSeq(t, 1, Len(t) - 1)

InitJobBlock ==
  /\ pc = "call"
  /\ input \in {[fn |-> "jobBlock", block |-> b, tail |-> t, text |-> BlockText(b, t)] :
                  b \in JobBlocks, t \in BlockTails}
  /\ output = None

CallGetJobNum ==
  /\ pc = "call"
  /\ input.fn = "jobBlock"
  /\ output' = [call |-> "getJobNum", ret |-> getJobNum(input.text)]
  /\ pc' = "done"
  /\ UNCHANGED input

CallGetJobStatsIOMetrics ==
  /\ pc = "call"
  /\ input.fn = "jobBlock"
  /\ \E helpText \in JobIOHelps \cup {jobStatsHelp} :
       output' = [call |-> "getJobStatsIOMetrics", helpText |-> helpText,
                  ret |-> getJobStatsIOMetrics(input.text, input.block.id,
                                               "job_io", helpText)]
  /\ pc' = "done"
  /\ UNCHANGED input

CallGetJobStatsOperationMetrics ==
  /\ pc = "call"
  /\ input.fn = "jobBlock"
  /\ output' = [call |-> "getJobStatsOperationMetrics",
                ret |-> getJobStatsOperationMetrics(input.text, input.block.id,
                                                    "job_stats_total", jobStatsHelp)]
  /\ pc' = "done"
  /\ UNCHANGED input

NextJobBlock ==
  \/ CallGetJobNum
  \/ CallGetJobStatsIOMetrics
  \/ CallGetJobStatsOperationMetrics

SpecJobBlock == InitJobBlock /\ [][NextJobBlock]_vars

(***************************************************************************)
(* Claims about the extractors of one job block                            *)
(***************************************************************************)
\* the line of the block named name, as a sequence of at most one line
LinesNamed(block, name) == SelectSeq(block.lines, LAMBDA l : l.name = name)

JobIOOutcome(block, jobID, helpText) ==
  IF helpText \notin JobIOHelps THEN Result(<<>>, FALSE)
  ELSE LET ls == LinesNamed(block, JobIOPattern(helpText))
       IN IF ls = <<>> THEN Result(<<>>, FALSE)
          ELSE LET v == ls[1].nums[JobIOIndex(helpText) + 1]
               IN IF v = 0 THEN Result(<<>>, FALSE)
                  ELSE Result(<<JobsMetric(jobID,
                                  StatsMetric("job_io", helpText, FloatOfNat(v), "", <<>>))>>,
                              FALSE)

HasDesignatedField(block, helpText) ==
  \A i \in 1..Len(block.lines) :
    (helpText \in JobIOHelps /\ block.lines[i].name = JobIOPattern(helpText))
      => JobIOIndex(helpText) < Len(block.lines[i].nums)

\* C1: getJobStatsIOMetrics returns exactly one observation with the
\* designated number of the read_bytes/write_bytes line and the given job id
\* when the line is present and that number is not 0; it returns no
\* observation and no error when the number is 0, when the line is absent and
\* when the help text is not an IO key (blocks whose line has the designated
\* field)
C1_JobIOZeroDrop ==
  (pc = "done" /\ input.fn = "jobBlock" /\ output.call = "getJobStatsIOMetrics"
     /\ HasDesignatedField(input.block, output.helpText))
  => output.ret = JobIOOutcome(input.block, input.block.id, output.helpText)

C1_Witness ==
  /\ pc = "done" /\ input.fn = "jobBlock"
  /\ output.call = "getJobStatsIOMetrics"
  /\ output.helpText = "readTotalHelp"
  /\ LinesNamed(input.block, ReadBytes) # <<>>
  /\ LinesNamed(input.block, ReadBytes)[1].nums = <<126, 1048576, 1048576, 132120576>>
  /\ output.ret.kind = "ret"
  /\ Len(output.ret.metricList) = 1
  /\ output.ret.metricList[1].metric.value = FloatOfNat(132120576)
  /\ output.ret.metricList[1].jobID = input.block.id

\* the catalog operations of the block with a non-zero count, from entry k on
RECURSIVE JobOperationOutcomeFrom(_, _, _)
JobOperationOutcomeFrom(block, jobID, k) ==
  IF k > Len(JobOperations) THEN <<>>
  ELSE LET ls == LinesNamed(block, JobOperations[k])
       IN (IF ls # <<>> /\ ls[1].nums[1] # 0
           THEN <<JobsMetric(jobID,
                    StatsMetric("job_stats_total", jobStatsHelp,
                                FloatOfNat(ls[1].nums[1]), "operation", JobOperations[k]))>>
           ELSE <<>>)
          \o JobOperationOutcomeFrom(block, jobID, k + 1)

\* C2: getJobStatsOperationMetrics returns exactly one observation per catalog
\* operation whose line is present with a non-zero samples count, in catalog
\* order, labelled with the operation name and carrying that count
C2_JobOperationsExact ==
  (pc = "done" /\ input.fn = "jobBlock" /\ output.call = "getJobStatsOperationMetrics")
  => output.ret = Result(JobOperationOutcomeFrom(input.block, input.block.id, 1), FALSE)

IsJobid(id) == id # <<>> /\ \A i \in 1..Len(id) : IsJobidChar(id[i])

\* C6: getJobNum returns the value of the "job_id:" header without its
\* leading and trailing whitespace when the value is made of letters, digits,
\* '.', '_', '-', '+' and inner spaces, and returns an error when the value is
\* empty or the block has no header
C6_GetJobNum ==
  (pc = "done" /\ input.fn = "jobBlock" /\ output.call = "getJobNum")
  => /\ (input.block.header /\ IsJobid(input.block.id))
          => output.ret = [kind |-> "ret", jobID |-> input.block.id, err |-> FALSE]
     /\ (~input.block.header \/ input.block.id = <<>>) => output.ret.err

C6_Witness ==
  /\ pc = "done" /\ input.fn = "jobBlock" /\ output.call = "getJobNum"
  /\ input.block.header
  /\ input.block.id = JobIdB
  /\ input.block.lead = <<" ", " ", " ">>
  /\ input.block.trail = <<" ", " ">>
  /\ output.ret = [kind |-> "ret", jobID |-> JobIdB, err |-> FALSE]

(***************************************************************************)
(* Inputs of the job_stats file parser: files of up to MaxBlocks blocks,   *)
(* each introduced by "- " as in the fixture of TestMultipleGetJobStats    *)
(***************************************************************************)
MaxBlocks == 3

FileBlocks ==
  {JobBlock(TRUE, <<" ">>, JobIdA, <<>>,
            IOLines(<<1, 2, 3, 4>>, <<>>) \o <<Line(JobOperations[1], <<1>>, Reqs)>>, Compact),
   JobBlock(TRUE, Wide, JobIdB, <<" ">>,
            <<Line(JobOperations[1], <<0>>, Reqs), Line(JobOperations[2], <<2>>, Reqs)>>, Wide),
   JobBlock(TRUE, <<>>, <<>>, <<>>,
            IOLines(<<5, 6, 7, 8>>, <<>>) \o <<Line(JobOperations[1], <<5>>, Reqs)>>, Compact),
   JobBlock(TRUE, <<" ">>, JobIdC, <<>>,
            IOLines(<<0, 0, 0, 0>>, <<>>) \o <<Line(JobOperations[2], <<6>>, Reqs)>>, Compact)}

JobStatsHeader == <<"j","o","b","_","s","t","a","t","s",":","\n">>

BlockDelimiter == <<"-", " ">>

JobFile(preamble, blocks, final) == [preamble |-> preamble, blocks |-> blocks, final |-> final]

RenderJobFile(f) ==
  LET t == (IF f.preamble THEN JobStatsHeader ELSE <<>>)
           \o Concat([i \in 1..Len(f.blocks) |-> BlockDelimiter \o RenderJobBlock(f.blocks[i])])
  IN IF f.final = "bare" THEN SubSeq(t, 1, Len(t) - 1) ELSE t

JobFiles ==
  {JobFile(p, bs, fin) :
     p \in BOOLEAN, bs \in UNION {[1..n -> FileBlocks] : n \in 1..MaxBlocks},
     fin \in {"newline", "bare"}}

InitJobFile ==
  /\ pc = "call"
  /\ input \in {[fn |-> "jobFile", file |-> f, text |-> RenderJobFile(f)] : f \in JobFiles}
  /\ output = None

CallRegexCaptureJobStats ==
  /\ pc = "call"
  /\ input.fn = "jobFile"
  /\ output' = [call |-> "regexCaptureJobStats", ret |-> regexCaptureJobStats(input.text)]
  /\ pc' = "done"
  /\ UNCHANGED input

\* parseJobStats calls parseJobStatsText with the metric's help text and
\* hasMultipleVals
CallParseJobStatsText ==
  /\ pc = "call"
  /\ input.fn = "jobFile"
  /\ \E hasMultipleVals \in BOOLEAN :
       \E helpText \in IF hasMultipleVals THEN {jobStatsHelp}
                       ELSE {"readSamplesHelp", "readTotalHelp"} :
         output' = [call |-> "parseJobStatsText", helpText |-> helpText,
                    hasMultipleVals |-> hasMultipleVals,
                    ret |-> parseJobStatsText(input.text, "job_stats", helpText,
                                              hasMultipleVals)]
  /\ pc' = "done"
  /\ UNCHANGED input

NextJobFile ==
  \/ CallRegexCaptureJobStats
  \/ CallParseJobStatsText

SpecJobFile == InitJobFile /\ [][NextJobFile]_vars

\* the text of block i of a file, up to the next block delimiter or the end
FileBlockText(f, i) ==
  LET t == RenderJobBlock(f.blocks[i])
  IN IF i < Len(f.blocks) THEN t \o <<"-">>
     ELSE IF f.final = "bare" THEN SubSeq(t, 1, Len(t) - 1) ELSE t

\* C4: splitting a job_stats text with N "job_id:" headers yields exactly N
\* blocks in source order; each block starts at its header and extends to the
\* next block delimiter or the end of the text, and the last block equals the
\* source's final block character for character
C4_SplitJobStats ==
  (pc = "done" /\ input.fn = "jobFile" /\ output.call = "regexCaptureJobStats")
  => output.ret = [i \in 1..Len(input.file.blocks) |-> FileBlockText(input.file, i)]

C4_Witness ==
  /\ pc = "done" /\ input.fn = "jobFile" /\ output.call = "regexCaptureJobStats"
  /\ Len(input.file.blocks) = MaxBlocks
  /\ input.file.blocks[MaxBlocks].id = JobIdB
  /\ Len(output.ret) = MaxBlocks
  /\ output.ret[MaxBlocks] = RenderJobBlock(input.file.blocks[MaxBlocks])

HasJobid(block) == block.header /\ IsJobid(block.id)

\* the observations of the blocks of a file that have a job id, from block b on
RECURSIVE JobFileOutcomeFrom(_, _, _, _)
JobFileOutcomeFrom(f, helpText, hasMultipleVals, b) ==
  IF b > Len(f.blocks) THEN <<>>
  ELSE (IF ~HasJobid(f.blocks[b]) THEN <<>>
        ELSE IF hasMultipleVals
        THEN [k \in DOMAIN JobOperationOutcomeFrom(f.blocks[b], f.blocks[b].id, 1) |->
                [JobOperationOutcomeFrom(f.blocks[b], f.blocks[b].id, 1)[k]
                   EXCEPT !.metric.title = "job_stats"]]
        ELSE [k \in DOMAIN JobIOOutcome(f.blocks[b], f.blocks[b].id, helpText).metricList |->
                [JobIOOutcome(f.blocks[b], f.blocks[b].id, helpText).metricList[k]
                   EXCEPT !.metric.title = "job_stats"]])
       \o JobFileOutcomeFrom(f, helpText, hasMultipleVals, b + 1)

SomeBlockWithoutJobid(f) == \E b \in 1..Len(f.blocks) : ~HasJobid(f.blocks[b])

RECURSIVE SplitSpacesFrom(_, _)
SplitSpacesFrom(s, i) ==
  LET sp == {k \in i..Len(s) : s[k] = " "}
  IN IF sp = {} THEN <<SubSeq(s, i, Len(s))>>
     ELSE LET p == Min(sp)
              q == Min({Len(s) + 1} \cup {k \in p..Len(s) : s[k] # " "})
          IN <<SubSeq(s, i, p - 1)>> \o SplitSpacesFrom(s, q)

SplitSpaces(s) == SplitSpacesFrom(s, 1)

\* operationSlice of getStatsOperationMetrics (every index is 1)
StatsOperations ==
  <<<<"o","p","e","n">>, <<"c","l","o","s","e">>, <<"g","e","t","a","t","t","r">>, <<"s","e","t","a","t","t","r">>, <<"g","e","t","x","a","t","t","r">>, <<"s","e","t","x","a","t","t","r">>,
    <<"s","t","a","t","f","s">>, <<"s","e","e","k">>, <<"r","e","a","d","d","i","r">>, <<"t","r","u","n","c","a","t","e">>, <<"a","l","l","o","c","_","i","n","o","d","e">>,
    <<"r","e","m","o","v","e","x","a","t","t","r">>, <<"u","n","l","i","n","k">>, <<"i","n","o","d","e","_","p","e","r","m","i","s","s","i","o","n">>, <<"c","r","e","a","t","e">>, <<"g","e","t","_","i","n","f","o">>,
    <<"s","e","t","_","i","n","f","o","_","a","s","y","n","c">>, <<"c","o","n","n","e","c","t">>, <<"p","i","n","g">>>>

\* getStatsOperationMetrics without the observations of value 0
RECURSIVE StatsOperationsFromMutDropZero(_, _, _, _)
StatsOperationsFromMutDropZero(statsFile, promName, helpText, k) ==
  IF k > Len(StatsOperations) THEN Result(<<>>, FALSE)
  ELSE LET pattern == StatsOperations[k]
           opStat == regexCaptureString(pattern \o <<" ">>, statsFile)
       IN IF Len(opStat) < 1
          THEN StatsOperationsFromMutDropZero(statsFile, promName, helpText, k + 1)
          ELSE LET bytesSplit == SplitSpaces(opStat)
               IN IF Len(bytesSplit) < 2 THEN Panic
                  ELSE LET result == ParseFloat(bytesSplit[2])
                       IN IF result.err THEN Result(<<>>, TRUE)
                          ELSE LET rest == StatsOperationsFromMutDropZero(statsFile, promName,
                                                                          helpText, k + 1)
                               IN IF rest.kind = "panic" \/ rest.err THEN rest
                                  ELSE IF IsZero(result.val) THEN rest
                                  ELSE Result(<<StatsMetric(promName, helpText, result.val,
                                                            "operation", pattern)>>
                                              \o rest.metricList, FALSE)

GetStatsOperationMetricsMutDropZero(statsFile, promName, helpText) ==
  StatsOperationsFromMutDropZero(statsFile, promName, helpText, 1)

\* the loop of getStatsOperationMetrics from catalog entry k on; the Go index
\* 1 is position 2 here
RECURSIVE StatsOperationsFrom(_, _, _, _)
StatsOperationsFrom(statsFile, promName, helpText, k) ==
  IF k > Len(StatsOperations) THEN Result(<<>>, FALSE)
  ELSE LET pattern == StatsOperations[k]
           opStat == regexCaptureString(pattern \o <<" ">>, statsFile)
       IN IF Len(opStat) < 1
          THEN StatsOperationsFrom(statsFile, promName, helpText, k + 1)
          ELSE LET bytesSplit == SplitSpaces(opStat)
               IN IF Len(bytesSplit) < 2 THEN Panic
                  ELSE LET result == ParseFloat(bytesSplit[2])
                       IN IF result.err THEN Result(<<>>, TRUE)
                          ELSE LET rest == StatsOperationsFrom(statsFile, promName,
                                                               helpText, k + 1)
                               IN IF rest.kind = "panic" \/ rest.err THEN rest
                                  ELSE Result(<<StatsMetric(promName, helpText, result.val,
                                                            "operation", pattern)>>
                                              \o rest.metricList, FALSE)

getStatsOperationMetrics(statsFile, promName, helpText) ==
  StatsOperationsFrom(statsFile, promName, helpText, 1)

\* bytesMap of getStatsIOMetrics: the literal of each pattern (before ".*")
\* and the Go index
bytesMap ==
  {
     [help |-> "readSamplesHelp", pattern |-> <<"r","e","a","d","_","b","y","t","e","s"," ">>, index |-> 1],
     [help |-> "readMinimumHelp", pattern |-> <<"r","e","a","d","_","b","y","t","e","s"," ">>, index |-> 4],
     [help |-> "readMaximumHelp", pattern |-> <<"r","e","a","d","_","b","y","t","e","s"," ">>, index |-> 5],
     [help |-> "readTotalHelp", pattern |-> <<"r","e","a","d","_","b","y","t","e","s"," ">>, index |-> 6],
     [help |-> "writeSamplesHelp", pattern |-> <<"w","r","i","t","e","_","b","y","t","e","s"," ">>, index |-> 1],
     [help |-> "writeMinimumHelp", pattern |-> <<"w","r","i","t","e","_","b","y","t","e","s"," ">>, index |-> 4],
     [help |-> "writeMaximumHelp", pattern |-> <<"w","r","i","t","e","_","b","y","t","e","s"," ">>, index |-> 5],
     [help |-> "writeTotalHelp", pattern |-> <<"w","r","i","t","e","_","b","y","t","e","s"," ">>, index |-> 6],
     [help |-> "physicalPagesHelp", pattern |-> <<"p","h","y","s","i","c","a","l"," ","p","a","g","e","s",":"," ">>, index |-> 2],
     [help |-> "pagesPerPoolHelp", pattern |-> <<"p","a","g","e","s"," ","p","e","r"," ","p","o","o","l",":"," ">>, index |-> 3],
     [help |-> "maxPagesHelp", pattern |-> <<"m","a","x"," ","p","a","g","e","s",":"," ">>, index |-> 2],
     [help |-> "maxPoolsHelp", pattern |-> <<"m","a","x"," ","p","o","o","l","s",":"," ">>, index |-> 2],
     [help |-> "totalPagesHelp", pattern |-> <<"t","o","t","a","l"," ","p","a","g","e","s",":"," ">>, index |-> 2],
     [help |-> "totalFreeHelp", pattern |-> <<"t","o","t","a","l"," ","f","r","e","e",":"," ">>, index |-> 2],
     [help |-> "maxPagesReachedHelp", pattern |-> <<"m","a","x"," ","p","a","g","e","s"," ","r","e","a","c","h","e","d",":"," ">>, index |-> 3],
     [help |-> "growsHelp", pattern |-> <<"g","r","o","w","s",":"," ">>, index |-> 1],
     [help |-> "growsFailureHelp", pattern |-> <<"g","r","o","w","s"," ","f","a","i","l","u","r","e",":"," ">>, index |-> 2],
     [help |-> "shrinksHelp", pattern |-> <<"s","h","r","i","n","k","s",":"," ">>, index |-> 1],
     [help |-> "cacheAccessHelp", pattern |-> <<"c","a","c","h","e"," ","a","c","c","e","s","s",":"," ">>, index |-> 2],
     [help |-> "cacheMissingHelp", pattern |-> <<"c","a","c","h","e"," ","m","i","s","s","i","n","g",":"," ">>, index |-> 2],
     [help |-> "lowFreeMarkHelp", pattern |-> <<"l","o","w"," ","f","r","e","e"," ","m","a","r","k",":"," ">>, index |-> 3],
     [help |-> "maxWaitQueueDepthHelp", pattern |-> <<"m","a","x"," ","w","a","i","t","q","u","e","u","e"," ","d","e","p","t","h",":"," ">>, index |-> 3],
     [help |-> "outOfMemHelp", pattern |-> <<"o","u","t"," ","o","f"," ","m","e","m",":"," ">>, index |-> 3]
  }

\* bytesMap[helpText]: the zero value for a help text that is not a key
BytesMapEntry(helpText) ==
  IF \E e \in bytesMap : e.help = helpText
  THEN CHOOSE e \in bytesMap : e.help = helpText
  ELSE [help |-> helpText, pattern |-> <<>>, index |-> 0]

getStatsIOMetrics(statsFile, promName, helpText) ==
  LET entry == BytesMapEntry(helpText)
      bytesString == regexCaptureString(entry.pattern, statsFile)
  IN IF Len(bytesString) < 1 THEN Result(<<>>, FALSE)
     ELSE LET bytesSplit == SplitSpaces(bytesString)
          IN IF entry.index >= Len(bytesSplit) THEN Panic
             ELSE LET result == ParseFloat(bytesSplit[entry.index + 1])
                  IN IF result.err THEN Result(<<>>, TRUE)
                     ELSE Result(<<StatsMetric(promName, helpText, result.val, "", <<>>)>>,
                                 FALSE)

(***************************************************************************)
(* Inputs of the stats extractors: stats files in the layout the kernel    *)
(* writes, rendered from the same (name, numbers) lines as the job blocks, *)
(* and encrypt_page_pools files                                            *)
(***************************************************************************)
Spaces(n) == [i \in 1..n |-> " "]

\* "read_bytes                126 samples [bytes] 1 1048576 132120576"
RenderStatsLine(l) ==
  l.name \o Spaces(IF Len(l.name) < 25 THEN 26 - Len(l.name) ELSE 1)
    \o FormatNat(l.nums[1]) \o <<" ","s","a","m","p","l","e","s"," ","[">> \o l.unit \o <<"]">>
    \o (IF Len(l.nums) >= 4
        THEN <<" ">> \o FormatNat(l.nums[2]) \o <<" ">> \o FormatNat(l.nums[3])
               \o <<" ">> \o FormatNat(l.nums[4])
        ELSE <<>>)
    \o <<"\n">>

StatsSnapshotLine == <<"s","n","a","p","s","h","o","t","_","t","i","m","e"," "," "," "," "," "," "," "," "," "," "," "," "," ","1","4","9","3","3","2","6","9","4","3",".","1","2","3","4","5","6"," ","s","e","c","s",".","u","s","e","c","s","\n">>

\* "total pages:             0"
RenderPoolLine(l) ==
  l.name \o <<":">> \o Spaces(25 - Len(l.name)) \o FormatNat(l.nums[1]) \o <<"\n">>

RenderStatsFile(f) ==
  IF f.kind = "stats"
  THEN StatsSnapshotLine \o Concat([i \in 1..Len(f.lines) |-> RenderStatsLine(f.lines[i])])
  ELSE Concat([i \in 1..Len(f.lines) |-> RenderPoolLine(f.lines[i])])

\* operation lines in kernel order; reconnect is not an operation of the catalog
StatsVocabulary == <<<<"o","p","e","n">>, <<"u","n","l","i","n","k">>, <<"c","o","n","n","e","c","t">>, <<"r","e","c","o","n","n","e","c","t">>, <<"p","i","n","g">>>>

StatsOpLines(f, scale) ==
  LET present == SortedSeq({i \in 1..Len(StatsVocabulary) : f[i] # "absent"})
  IN [k \in 1..Len(present) |->
        Line(StatsVocabulary[present[k]],
             <<IF f[present[k]] = "zero" THEN 0 ELSE present[k] * scale>>, Reqs)]

StatsAssignments == [1..Len(StatsVocabulary) -> {"absent", "zero", "some"}]

PoolVocabulary == <<<<"m","a","x"," ","p","a","g","e","s">>, <<"t","o","t","a","l"," ","p","a","g","e","s">>, <<"t","o","t","a","l"," ","f","r","e","e">>>>

PoolHelps == <<"maxPagesHelp", "totalPagesHelp", "totalFreeHelp">>

StatsFiles ==
  {[kind |-> "stats", lines |-> IOLines(r, w) \o <<Line(StatsOperations[1], <<1>>, Reqs)>>] :
     r \in UNION {ReadNums(s) : s \in 1..MaxScale},
     w \in UNION {WriteNums(s) : s \in 1..MaxScale}}
  \cup {[kind |-> "stats", lines |-> StatsOpLines(f, s)] :
          f \in StatsAssignments, s \in 1..MaxScale}
  \cup {[kind |-> "pools",
         lines |-> [i \in 1..Len(PoolVocabulary) |-> Line(PoolVocabulary[i], <<v[i] * (i + 8)>>, <<>>)]] :
          v \in [1..Len(PoolVocabulary) -> 0..MaxScale]}

InitStats ==
  /\ pc = "call"
  /\ input \in {[fn |-> "statsFile", file |-> f, text |-> RenderStatsFile(f)] : f \in StatsFiles}
  /\ output = None

CallGetStatsOperationMetrics ==
  /\ pc = "call"
  /\ input.fn = "statsFile"
  /\ output' = [call |-> "getStatsOperationMetrics",
                ret |-> getStatsOperationMetrics(input.text, "stats_total", statsHelp)]
  /\ pc' = "done"
  /\ UNCHANGED input

CallGetStatsIOMetrics ==
  /\ pc = "call"
  /\ input.fn = "statsFile"
  /\ \E helpText \in JobIOHelps \cup Range(PoolHelps) \cup {statsHelp} :
       output' = [call |-> "getStatsIOMetrics", helpText |-> helpText,
                  ret |-> getStatsIOMetrics(input.text, "stats_io", helpText)]
  /\ pc' = "done"
  /\ UNCHANGED input

NextStats ==
  \/ CallGetStatsOperationMetrics
  \/ CallGetStatsIOMetrics

SpecStats == InitStats /\ [][NextStats]_vars

(***************************************************************************)
(* Claims about the stats extractors                                       *)
(***************************************************************************)
\* the same lines in the job_stats layout
AsJobBlock(f) == RenderJobBlock(JobBlock(TRUE, <<" ">>, JobIdA, <<>>, f.lines, Compact))

\* the lines of a file that the pattern of helpText designates
DesignatedLines(f, helpText) ==
  SelectSeq(f.lines,
            LAMBDA l : l.name \o (IF f.kind = "stats" THEN <<" ">> ELSE <<":", " ">>)
                         = BytesMapEntry(helpText).pattern)

DesignatedPosition(f, helpText) ==
  IF f.kind = "stats" THEN JobIOIndex(helpText) + 1 ELSE 1

ObservationsOf(metricList, operation) ==
  {k \in 1..Len(metricList) : metricList[k].extraLabelValue = operation}

\* C3, operation style: every catalog operation whose line is present in a
\* stats file has one observation carrying its count, a count of 0 included,
\* and for the same lines in a job block the job_stats extractor emits no
\* observation of an operation whose count is 0
C3_StatsOperationsKeepZero ==
  (pc = "done" /\ input.fn = "statsFile" /\ output.call = "getStatsOperationMetrics"
     /\ input.file.kind = "stats")
  => /\ output.ret.kind = "ret"
     /\ ~output.ret.err
     /\ \A i \in 1..Len(input.file.lines) :
          LET l == input.file.lines[i]
          IN l.name \in Range(StatsOperations)
             => /\ Cardinality(ObservationsOf(output.ret.metricList, l.name)) = 1
                /\ \A k \in ObservationsOf(output.ret.metricList, l.name) :
                     output.ret.metricList[k] =
                       StatsMetric("stats_total", statsHelp, FloatOfNat(l.nums[1]),
                                   "operation", l.name)
                /\ l.nums[1] = 0
                   => LET job == getJobStatsOperationMetrics(AsJobBlock(input.file), JobIdA,
                                                             "job_stats_total", jobStatsHelp)
                      IN /\ job.kind = "ret"
                         /\ ~job.err
                         /\ \A k \in 1..Len(job.metricList) :
                              job.metricList[k].metric.extraLabelValue # l.name

\* C3, IO style: when the line designated by the help text is present in a
\* stats file (with the designated field), getStatsIOMetrics returns one
\* observation carrying that field, a value of 0 included, and for the same
\* line in a job block getJobStatsIOMetrics returns nothing when it is 0
C3_StatsIOKeepZero ==
  (pc = "done" /\ input.fn = "statsFile" /\ output.call = "getStatsIOMetrics"
     /\ DesignatedLines(input.file, output.helpText) # <<>>
     /\ DesignatedPosition(input.file, output.helpText)
          <= Len(DesignatedLines(input.file, output.helpText)[1].nums))
  => LET v == DesignatedLines(input.file, output.helpText)[1].nums[
                DesignatedPosition(input.file, output.helpText)]
     IN /\ output.ret = Result(<<StatsMetric("stats_io", output.helpText, FloatOfNat(v),
                                             "", <<>>)>>, FALSE)
        /\ (v = 0 /\ input.file.kind = "stats")
           => getJobStatsIOMetrics(AsJobBlock(input.file), JobIdA, "job_io", output.helpText)
                = Result(<<>>, FALSE)

\* C3: the zero-drop policy is specific to job_stats: the stats extractors
\* emit an observation for every matching line that is present, also when the
\* parsed value is exactly 0, where the job_stats extractors emit nothing for
\* the same line content
C3_StatsKeepZero == C3_StatsOperationsKeepZero /\ C3_StatsIOKeepZero

C3_Witness ==
  /\ pc = "done" /\ input.fn = "statsFile" /\ output.call = "getStatsOperationMetrics"
  /\ input.file.kind = "stats"
  /\ \E i \in 1..Len(input.file.lines) :
       /\ input.file.lines[i].name = StatsOperations[13]
       /\ input.file.lines[i].nums = <<0>>
  /\ output.ret.kind = "ret"
  /\ \E k \in 1..Len(output.ret.metricList) :
       output.ret.metricList[k] =
         StatsMetric("stats_total", statsHelp, FloatOfNat(0), "operation", StatsOperations[13])
  /\ getJobStatsOperationMetrics(AsJobBlock(input.file), JobIdA, "job_stats_total",
                                 jobStatsHelp).metricList = <<>>

(***************************************************************************)
(* splitBRWStats                                                           *)
(***************************************************************************)
\* unicode.IsSpace on the characters of the texts
FieldSpace == {" ", "\t", "\n", "\r", "\f"}

\* strings.Fields(s), the fields from position i on
RECURSIVE FieldsFrom(_, _)
FieldsFrom(s, i) ==
  LET ns == {k \in i..Len(s) : s[k] \notin FieldSpace}
  IN IF ns = {} THEN <<>>
     ELSE LET p == Min(ns)
              q == Min({Len(s) + 1} \cup {k \in p..Len(s) : s[k] \in FieldSpace})
          IN <<SubSeq(s, p, q - 1)>> \o FieldsFrom(s, q)

Fields(s) == FieldsFrom(s, 1)

\* strings.Replace(s, ":", "", -1)
RemoveColons(s) == SelectSeq(s, LAMBDA c : c # ":")

BRWMetric(size, operation, value) == [size |-> size, operation |-> operation, value |-> value]

\* the loop of splitBRWStats over the lines after the first, from line k on
RECURSIVE SplitBRWLinesFrom(_, _)
SplitBRWLinesFrom(lines, k) ==
  IF k > Len(lines) THEN Result(<<>>, FALSE)
  ELSE LET line == lines[k]
           fields == Fields(line)
       IN IF Len(line) > 1 /\ Len(fields) = 1 THEN Panic
          ELSE LET rest == SplitBRWLinesFrom(lines, k + 1)
                   size == RemoveColons(fields[1])
               IN IF rest.kind = "panic" THEN rest
                  ELSE IF Len(line) > 1 /\ Len(fields) >= 6
                  THEN Result(<<BRWMetric(size, "read", fields[2]),
                                BRWMetric(size, "write", fields[6])>> \o rest.metricList, FALSE)
                  ELSE IF Len(line) > 1 /\ Len(fields) >= 1
                  THEN Result(<<BRWMetric(size, "read", fields[2])>> \o rest.metricList, FALSE)
                  ELSE rest

splitBRWStats(statBlock) ==
  IF Len(statBlock) = 0 THEN Result(<<>>, FALSE)
  ELSE SplitBRWLinesFrom(Tail(Split(statBlock, "\n")), 1)

(***************************************************************************)
(* Inputs of splitBRWStats: a section of brw_stats, its header line and    *)
(* rows of 0 to MaxWidth fields                                            *)
(***************************************************************************)
MaxWidth == 8

MaxRows == 2

BRWHeader == <<"p","a","g","e","s"," ","p","e","r"," ","b","u","l","k"," ","r","/","w"," "," "," "," "," ","r","p","c","s"," "," ","%"," ","c","u","m"," ","%"," ","|"," "," ","r","p","c","s"," "," "," "," "," "," "," "," ","%"," ","c","u","m"," ","%">>

BRWLabels == {<<"1",":">>, <<"4","K",":">>, <<"8">>}

\* field j of a row: the size label, the read columns, "|", the write columns
BRWField(label, j) ==
  IF j = 1 THEN label ELSE IF j = 5 THEN <<"|">> ELSE FormatNat(10 * j + Len(label))

BRWRow(label, width) == [j \in 1..width |-> BRWField(label, j)]

BRWRows == {<<>>} \cup {BRWRow(l, w) : l \in BRWLabels, w \in 1..MaxWidth}

BRWSeparators == {<<" ">>, <<"\t", " ", " ">>}

RenderBRWSection(s) ==
  BRWHeader \o <<"\n">>
    \o Join([k \in 1..Len(s.rows) |-> Join(s.rows[k], s.sep)], <<"\n">>)
    \o s.tail

BRWSections ==
  {[rows |-> rs, sep |-> sep, tail |-> t] :
     rs \in UNION {[1..n -> BRWRows] : n \in 1..MaxRows},
     sep \in BRWSeparators, t \in {<<>>, <<"\n", "\n">>}}

InitBRW ==
  /\ pc = "call"
  /\ input \in {[fn |-> "brwSection", section |-> s, text |-> RenderBRWSection(s)] :
                  s \in BRWSections}
                \cup {[fn |-> "brwSection", section |-> [rows |-> <<>>, sep |-> <<>>, tail |-> <<>>],
                       text |-> <<>>]}
  /\ output = None

CallSplitBRWStats ==
  /\ pc = "call"
  /\ input.fn = "brwSection"
  /\ output' = [call |-> "splitBRWStats", ret |-> splitBRWStats(input.text)]
  /\ pc' = "done"
  /\ UNCHANGED input

NextBRW == CallSplitBRWStats

SpecBRW == InitBRW /\ [][NextBRW]_vars

\* the buckets a row yields: read and write for at least 6 fields, read for 1
\* to 5 fields (a row of one field has no field of index 1)
BRWRowOutcome(row) ==
  IF Len(row) >= 6
  THEN <<BRWMetric(RemoveColons(row[1]), "read", row[2]),
         BRWMetric(RemoveColons(row[1]), "write", row[6])>>
  ELSE IF Len(row) >= 2 THEN <<BRWMetric(RemoveColons(row[1]), "read", row[2])>>
  ELSE IF Len(row) = 1 THEN <<BRWMetric(RemoveColons(row[1]), "read", <<>>)>>
  ELSE <<>>

BRWOutcome(rows) == Concat([k \in 1..Len(rows) |-> BRWRowOutcome(rows[k])])

BucketKeys(metricList) ==
  [k \in 1..Len(metricList) |-> [size |-> metricList[k].size,
                                 operation |-> metricList[k].operation]]

\* C9: splitBRWStats discards the header line and yields, per row, a read
\* bucket from field index 1 and a write bucket from field index 5 for a row
\* of at least 6 fields, exactly one read bucket for a row of 1 to 5 fields,
\* each with the row's first field without its colon as size, and no other
\* bucket
C9_SplitBRWStatsRows ==
  (pc = "done" /\ input.fn = "brwSection" /\ output.call = "splitBRWStats")
  => /\ output.ret.kind = "ret"
     /\ ~output.ret.err
     /\ BucketKeys(output.ret.metricList) = BucketKeys(BRWOutcome(input.section.rows))
     /\ (\A k \in 1..Len(input.section.rows) : Len(input.section.rows[k]) # 1)
        => output.ret.metricList = BRWOutcome(input.section.rows)

\* the same statement for the sections without a row of exactly one field
C9_SplitBRWStatsWideRows ==
  (pc = "done" /\ input.fn = "brwSection" /\ output.call = "splitBRWStats"
     /\ \A k \in 1..Len(input.section.rows) : Len(input.section.rows[k]) # 1)
  => output.ret = Result(BRWOutcome(input.section.rows), FALSE)

(***************************************************************************)
(* lctl source: the changelog_users block                                  *)
(***************************************************************************)
\* a prometheus.Metric built by counterMetric, gaugeMetric or untypedMetric
Metric(kind, labels, labelValues, name, helpText, value) ==
  [kind |-> kind, labels |-> labels, labelValues |-> labelValues, name |-> name,
   helpText |-> helpText, value |-> value]

IsTargetChar(c) == IsWordChar(c) \/ c = "-"

MdtLiteral == <<"-","M","D","T">>

ChangelogUsersLiteral == <<"c","h","a","n","g","e","l","o","g","_","u","s","e","r","s","=">>

\* changelogTargetRegexPattern mdd.([\w\d-]+-MDT[\d]+).changelog_users= at
\* position p: the group runs from p + 4 over [\w\d-]+ up to an occurrence k
\* of "-MDT", then over digits up to e, followed by one character other than
\* a newline and the literal; both runs are greedy
TargetMatchesAt(text, p) ==
  LET g == p + 4
      ks == {k \in Occurrences(MdtLiteral, text) :
               /\ k > g
               /\ \A j \in g..(k - 1) : IsTargetChar(text[j])}
      cand == {<<k, e>> \in ks \X (1..Len(text)) :
                 /\ e >= k + 5
                 /\ \A j \in (k + 4)..(e - 1) : IsDigit(text[j])
                 /\ text[e] # "\n"
                 /\ e + 1 \in Occurrences(ChangelogUsersLiteral, text)}
  IN IF /\ p + 4 <= Len(text)
        /\ SubSeq(text, p, p + 2) = <<"m", "d", "d">>
        /\ text[p + 3] # "\n"
     THEN {SubSeq(text, g, c[2] - 1) :
             c \in {c \in cand : \A d \in cand : d[1] < c[1] \/ (d[1] = c[1] /\ d[2] <= c[2])}}
     ELSE {}

ErrorOf(value) == [kind |-> "ret", value |-> value, err |-> TRUE]

ValueOf(value) == [kind |-> "ret", value |-> value, err |-> FALSE]

\* regexCaptureChangelogTarget with the test on "-MDT<digits>" left out of
\* the pattern: mdd.([\w\d-]*).changelog_users=
RegexCaptureChangelogTargetMutAnyName(textToMatch) ==
  LET ps == {p \in 1..Len(textToMatch) :
               /\ p + 3 <= Len(textToMatch)
               /\ SubSeq(textToMatch, p, p + 2) = <<"m", "d", "d">>
               /\ \E e \in Occurrences(ChangelogUsersLiteral, textToMatch) :
                    /\ e > p + 4
                    /\ \A j \in (p + 4)..(e - 2) : IsTargetChar(textToMatch[j])}
  IN IF ps = {} THEN ErrorOf(<<>>)
     ELSE LET p == Min(ps)
              e == Min({e \in Occurrences(ChangelogUsersLiteral, textToMatch) : e > p + 4})
          IN ValueOf(SubSeq(textToMatch, p + 4, e - 2))

regexCaptureChangelogTarget(textToMatch) ==
  LET ps == {p \in 1..Len(textToMatch) : TargetMatchesAt(textToMatch, p) # {}}
  IN IF ps = {} THEN ErrorOf(<<>>)
     ELSE ValueOf(CHOOSE t \in TargetMatchesAt(textToMatch, Min(ps)) : TRUE)

CurrentIndexLiteral == <<"c","u","r","r","e","n","t"," ","i","n","d","e","x",":"," ">>

\* changelogCurrentIndexRegexPattern current index: (\d+), then ParseFloat
regexCaptureChangelogCurrentIndex(textToMatch) ==
  LET ps == {p \in Occurrences(CurrentIndexLiteral, textToMatch) :
               /\ p + Len(CurrentIndexLiteral) <= Len(textToMatch)
               /\ IsDigit(textToMatch[p + Len(CurrentIndexLiteral)])}
  IN IF ps = {} THEN ErrorOf(-1)
     ELSE LET d == Min(ps) + Len(CurrentIndexLiteral)
              currentIndex == ParseFloat(SubSeq(textToMatch, d, DigitRunEnd(textToMatch, d) - 1))
          IN IF currentIndex.err THEN ErrorOf(-1) ELSE ValueOf(currentIndex.val)

\* The end (exclusive) of the run of whitespace starting at i
SpaceRunEnd(text, i) ==
  Min({Len(text) + 1} \cup {j \in i..Len(text) : text[j] \notin WhiteSpace})

\* changelogUserRegexPattern (cl\d+)\s+(\d+) \((\d+)\) at position p
UserMatchAt(text, p) ==
  LET a == DigitRunEnd(text, p + 2)
      b == SpaceRunEnd(text, a)
      c == DigitRunEnd(text, b)
      d == DigitRunEnd(text, c + 2)
  IN IF /\ p + 1 <= Len(text) /\ text[p] = "c" /\ text[p + 1] = "l"
        /\ a > p + 2 /\ b > a /\ c > b
        /\ c + 1 <= Len(text) /\ text[c] = " " /\ text[c + 1] = "("
        /\ d > c + 2 /\ d <= Len(text) /\ text[d] = ")"
     THEN [matched |-> TRUE,
           fields |-> <<SubSeq(text, p, d), SubSeq(text, p, a - 1), SubSeq(text, b, c - 1),
                        SubSeq(text, c + 2, d - 1)>>,
           next |-> d + 1]
     ELSE [matched |-> FALSE]

\* regexCaptureChangelogUser: all matches from position i on, leftmost first
RECURSIVE ChangelogUsersFrom(_, _)
ChangelogUsersFrom(text, i) ==
  LET ps == {p \in i..Len(text) : text[p] = "c" /\ UserMatchAt(text, p).matched}
  IN IF ps = {} THEN <<>>
     ELSE <<UserMatchAt(text, Min(ps)).fields>>
            \o ChangelogUsersFrom(text, UserMatchAt(text, Min(ps)).next)

\* regexCaptureChangelogUser that returns the first match only
RegexCaptureChangelogUserMutFirst(textToMatch) ==
  LET users == ChangelogUsersFrom(textToMatch, 1)
  IN IF users = <<>> THEN <<>> ELSE <<users[1]>>

regexCaptureChangelogUser(textToMatch) == ChangelogUsersFrom(textToMatch, 1)

\* the loop of createMDTChangelogUsersMetrics over the captured users
RECURSIVE ChangelogUserMetricsFrom(_, _, _)
ChangelogUserMetricsFrom(users, target, u) ==
  IF u > Len(users) THEN Result(<<>>, FALSE)
  ELSE LET id == users[u][2]
           index == ParseFloat(users[u][3])
           idleSeconds == ParseFloat(users[u][4])
       IN IF index.err \/ idleSeconds.err THEN Result(<<>>, TRUE)
          ELSE LET rest == ChangelogUserMetricsFrom(users, target, u + 1)
               IN IF rest.err THEN rest
                  ELSE Result(<<Metric("counter", <<"component", "target", "id">>,
                                       <<"mdt", target, id>>, "changelog_user_index",
                                       "Index of registered changelog user.", index.val),
                                Metric("gauge", <<"component", "target", "id">>,
                                       <<"mdt", target, id>>, "changelog_user_idle_time",
                                       "Idle time in seconds of registered changelog user.",
                                       idleSeconds.val)>> \o rest.metricList, FALSE)

\* createMDTChangelogUsersMetrics that emits the readers without a current
\* index when the "current index" line is missing
CreateMDTChangelogUsersMetricsMutOptionalIndex(out) ==
  IF out.kind = "error" THEN Result(<<>>, TRUE)
  ELSE IF out.kind = "nopath" THEN Result(<<>>, FALSE)
  ELSE LET target == regexCaptureChangelogTarget(out.data)
           users == ChangelogUserMetricsFrom(regexCaptureChangelogUser(out.data),
                                             target.value, 1)
       IN IF target.err THEN Result(<<>>, TRUE) ELSE users

\* createMDTChangelogUsersMetrics; out is what the command (LctlCommandMode)
\* or the glob and the read of the file gave: an error, no path, or the data
createMDTChangelogUsersMetrics(out) ==
  IF out.kind = "error" THEN Result(<<>>, TRUE)
  ELSE IF out.kind = "nopath" THEN Result(<<>>, FALSE)
  ELSE LET target == regexCaptureChangelogTarget(out.data)
           currentIndex == regexCaptureChangelogCurrentIndex(out.data)
       IN IF target.err THEN Result(<<>>, TRUE)
          ELSE IF currentIndex.err THEN Result(<<>>, TRUE)
          ELSE LET users == ChangelogUserMetricsFrom(regexCaptureChangelogUser(out.data),
                                                     target.value, 1)
               IN IF users.err THEN users
                  ELSE Result(<<Metric("counter", <<"component", "target">>,
                                       <<"mdt", target.value>>, "changelog_current_index",
                                       "Changelog current index.", currentIndex.value)>>
                              \o users.metricList, FALSE)

(***************************************************************************)
(* Inputs of the changelog handler: the output of                          *)
(* lctl get_param mdd.*-*.changelog_users as in TestChangelogUser          *)
(***************************************************************************)
MaxReaders == 2

\* the names of the target line, and a text without the line
ChangelogTargets ==
  {[present |-> TRUE, name |-> n] :
     n \in {<<"l","u","s","t","r","e","-","M","D","T","0","0","0","0">>,
            <<"f","s","_","1","-","a","-","M","D","T","0","0","1","2">>, <<>>, <<"l","u","s","t","r","e">>}}
  \cup {[present |-> FALSE, name |-> <<>>]}

\* the values of the "current index" line, and a text without the line
ChangelogIndexes ==
  {[present |-> TRUE, n |-> n] : n \in {0, 34}} \cup {[present |-> FALSE, n |-> 0]}

ChangelogReaders ==
  {[id |-> <<"c","l","1">>, index |-> 0, idle |-> 1725676],
   [id |-> <<"c","l","2">>, index |-> 34, idle |-> 28],
   [id |-> <<"c","l","1","3">>, index |-> 5, idle |-> 0]}

RenderChangelog(c) ==
  (IF ~c.target.present THEN <<>>
   ELSE <<"m","d","d",".">> \o c.target.name \o <<".">> \o ChangelogUsersLiteral \o <<"\n">>)
  \o (IF ~c.index.present THEN <<>>
      ELSE CurrentIndexLiteral \o FormatNat(c.index.n) \o <<"\n">>)
  \o <<"I","D"," "," "," "," ","i","n","d","e","x"," ","(","i","d","l","e"," ","s","e","c","o","n","d","s",")","\n">>
  \o Concat([r \in 1..Len(c.readers) |->
               c.readers[r].id \o <<" ", " ", " ">> \o FormatNat(c.readers[r].index)
                 \o <<" ", "(">> \o FormatNat(c.readers[r].idle) \o <<")", "\n">>])

Changelogs ==
  {[target |-> t, index |-> i, readers |-> rs] :
     t \in ChangelogTargets, i \in ChangelogIndexes,
     rs \in UNION {[1..n -> ChangelogReaders] : n \in 0..MaxReaders}}

\* the blocks of the targets of one server: the mandatory lines and at most
\* one reader line
TargetBlocks ==
  {[target |-> [present |-> TRUE, name |-> n], index |-> [present |-> TRUE, n |-> i],
    readers |-> rs] :
     n \in {<<"l","u","s","t","r","e","-","M","D","T","0","0","0","0">>, <<"f","s","_","1","-","a","-","M","D","T","0","0","1","2">>},
     i \in {0, 34},
     rs \in {<<>>} \cup {<<r>> : r \in ChangelogReaders}}

\* what lctl get_param prints for the wildcard mdd.*-*.changelog_users on a
\* server of two targets: the block of one target after that of the other
TwoTargetOutputs ==
  {[fn |-> "changelogs", blocks |-> <<a, b>>,
    out |-> [kind |-> "data", data |-> RenderChangelog(a) \o RenderChangelog(b)]] :
     a \in {x \in TargetBlocks : x.target.name = <<"l","u","s","t","r","e","-","M","D","T","0","0","0","0">>},
     b \in {x \in TargetBlocks : x.target.name = <<"f","s","_","1","-","a","-","M","D","T","0","0","1","2">>}}

InitChangelog ==
  /\ pc = "call"
  /\ input \in {[fn |-> "changelog", changelog |-> c,
                 out |-> [kind |-> "data", data |-> RenderChangelog(c)]] : c \in Changelogs}
             \cup {[fn |-> "changelog", changelog |-> None, out |-> [kind |-> k]] :
                     k \in {"error", "nopath"}}
             \cup TwoTargetOutputs
  /\ output = None

CallRegexCaptureChangelog ==
  /\ pc = "call"
  /\ input.fn = "changelog"
  /\ input.out.kind = "data"
  /\ output' = [call |-> "regexCaptureChangelog",
                target |-> regexCaptureChangelogTarget(input.out.data),
                currentIndex |-> regexCaptureChangelogCurrentIndex(input.out.data),
                users |-> regexCaptureChangelogUser(input.out.data)]
  /\ pc' = "done"
  /\ UNCHANGED input

CallCreateMDTChangelogUsersMetrics ==
  /\ pc = "call"
  /\ input.fn \in {"changelog", "changelogs"}
  /\ output' = [call |-> "createMDTChangelogUsersMetrics",
                ret |-> createMDTChangelogUsersMetrics(input.out)]
  /\ pc' = "done"
  /\ UNCHANGED input

NextChangelog ==
  \/ CallRegexCaptureChangelog
  \/ CallCreateMDTChangelogUsersMetrics

SpecChangelog == InitChangelog /\ [][NextChangelog]_vars

(***************************************************************************)
(* Claims about the changelog handler                                      *)
(***************************************************************************)
\* a target name of the form <fsname>-MDT<digits>
IsMdtName(name) ==
  \E k \in Occurrences(MdtLiteral, name) :
    /\ k > 1
    /\ k + 4 <= Len(name)
    /\ \A j \in 1..(k - 1) : IsTargetChar(name[j])
    /\ \A j \in (k + 4)..Len(name) : IsDigit(name[j])

IsValidChangelog(c) == c.target.present /\ IsMdtName(c.target.name) /\ c.index.present

\* C11: the target line and the "current index" line are both mandatory: when
\* either is absent from the text the handler returns an error and no
\* observation; the target of "mdd.lustre-MDT0000.changelog_users=" is
\* "lustre-MDT0000", "mdd..changelog_users=" gives an error, and
\* "current index: 34" gives 34
C11_ChangelogMandatoryLines ==
  (pc = "done" /\ input.fn = "changelog" /\ input.out.kind = "data")
  => LET c == input.changelog
     IN /\ (output.call = "createMDTChangelogUsersMetrics"
              /\ (~c.target.present \/ ~c.index.present))
           => output.ret = Result(<<>>, TRUE)
        /\ output.call = "regexCaptureChangelog"
           => /\ ~c.target.present => output.target.err
              /\ (c.target.present /\ c.target.name = <<>>) => output.target.err
              /\ (c.target.present /\ IsMdtName(c.target.name))
                 => output.target = ValueOf(c.target.name)
              /\ ~c.index.present => output.currentIndex.err
              /\ c.index.present => output.currentIndex = ValueOf(FloatOfNat(c.index.n))

C11_Witness ==
  /\ pc = "done" /\ input.fn = "changelog" /\ input.out.kind = "data"
  /\ output.call = "createMDTChangelogUsersMetrics"
  /\ input.changelog.target.present
  /\ input.changelog.target.name = <<"l","u","s","t","r","e","-","M","D","T","0","0","0","0">>
  /\ ~input.changelog.index.present
  /\ Len(input.changelog.readers) = 2
  /\ output.ret = Result(<<>>, TRUE)

\* the observations of a valid changelog block
ChangelogOutcome(c) ==
  <<Metric("counter", <<"component", "target">>, <<"mdt", c.target.name>>,
           "changelog_current_index", "Changelog current index.", FloatOfNat(c.index.n))>>
  \o Concat([r \in 1..Len(c.readers) |->
       <<Metric("counter", <<"component", "target", "id">>,
                <<"mdt", c.target.name, c.readers[r].id>>, "changelog_user_index",
                "Index of registered changelog user.", FloatOfNat(c.readers[r].index)),
         Metric("gauge", <<"component", "target", "id">>,
                <<"mdt", c.target.name, c.readers[r].id>>, "changelog_user_idle_time",
                "Idle time in seconds of registered changelog user.",
                FloatOfNat(c.readers[r].idle))>>])

\* C12: for a valid changelog block with R reader lines the handler returns
\* 1 + 2*R observations and no error: the current-index counter labelled
\* (component=mdt, target), then per reader in text order an index counter
\* and an idle-time gauge labelled (component=mdt, target, id); R = 0 gives
\* the current-index observation alone
C12_ChangelogReaders ==
  (pc = "done" /\ input.fn = "changelog" /\ input.out.kind = "data"
     /\ output.call = "createMDTChangelogUsersMetrics"
     /\ IsValidChangelog(input.changelog))
  => /\ output.ret = Result(ChangelogOutcome(input.changelog), FALSE)
     /\ Len(output.ret.metricList) = 1 + 2 * Len(input.changelog.readers)

C12_Witness ==
  /\ pc = "done" /\ input.fn = "changelog" /\ input.out.kind = "data"
  /\ output.call = "createMDTChangelogUsersMetrics"
  /\ IsValidChangelog(input.changelog)
  /\ Len(input.changelog.readers) = 2
  /\ input.changelog.readers[1].id # input.changelog.readers[2].id
  /\ Len(output.ret.metricList) = 5
  /\ output.ret.metricList[4].labelValues[3] = input.changelog.readers[2].id
  /\ output.ret.metricList[5].value = FloatOfNat(input.changelog.readers[2].idle)

(***************************************************************************)
(* The template catalogs and the constructors of the sources               *)
(***************************************************************************)
core == "core"

extended == "extended"

disabled == "disabled"

counterMetric == "counter"

gaugeMetric == "gauge"

lustreHelpStruct(filename, promName, helpText, metricFunc, hasMultipleVals, priorityLevel) ==
  [filename |-> filename, promName |-> promName, helpText |-> helpText,
   metricFunc |-> metricFunc, hasMultipleVals |-> hasMultipleVals,
   priorityLevel |-> priorityLevel]

newLustreProcMetric(filename, promName, source, path, helpText, hasMultipleVals, metricFunc) ==
  [filename |-> filename, promName |-> promName, source |-> source, path |-> path,
   helpText |-> helpText, hasMultipleVals |-> hasMultipleVals, metricFunc |-> metricFunc]

\* metricMap of lustreProcFsSource.generateOSTMetricTemplates
procOSTMetricMap ==
  (<<"o","b","d","f","i","l","t","e","r","/","*","-","O","S","T","*">> :>
    <<
      lustreHelpStruct(<<"b","r","w","_","s","i","z","e">>, "brw_size_megabytes", "Block read/write size in megabytes", gaugeMetric, FALSE, extended),
      lustreHelpStruct(<<"g","r","a","n","t","_","c","o","m","p","a","t","_","d","i","s","a","b","l","e">>, "grant_compat_disabled", "Binary indicator as to whether clients with OBD_CONNECT_GRANT_PARAM setting will be granted space", gaugeMetric, FALSE, extended),
      lustreHelpStruct(<<"j","o","b","_","c","l","e","a","n","u","p","_","i","n","t","e","r","v","a","l">>, "job_cleanup_interval_seconds", "Interval in seconds between cleanup of tuning statistics", gaugeMetric, FALSE, extended),
      lustreHelpStruct(<<"j","o","b","_","s","t","a","t","s">>, "job_read_samples_total", "readSamplesHelp", counterMetric, FALSE, core),
      lustreHelpStruct(<<"j","o","b","_","s","t","a","t","s">>, "job_read_minimum_size_bytes", "readMinimumHelp", gaugeMetric, FALSE, core),
      lustreHelpStruct(<<"j","o","b","_","s","t","a","t","s">>, "job_read_maximum_size_bytes", "readMaximumHelp", gaugeMetric, FALSE, core),
      lustreHelpStruct(<<"j","o","b","_","s","t","a","t","s">>, "job_read_bytes_total", "readTotalHelp", counterMetric, FALSE, core),
      lustreHelpStruct(<<"j","o","b","_","s","t","a","t","s">>, "job_write_samples_total", "writeSamplesHelp", counterMetric, FALSE, core),
      lustreHelpStruct(<<"j","o","b","_","s","t","a","t","s">>, "job_write_minimum_size_bytes", "writeMinimumHelp", gaugeMetric, FALSE, extended),
      lustreHelpStruct(<<"j","o","b","_","s","t","a","t","s">>, "job_write_maximum_size_bytes", "writeMaximumHelp", gaugeMetric, FALSE, extended),
      lustreHelpStruct(<<"j","o","b","_","s","t","a","t","s">>, "job_write_bytes_total", "writeTotalHelp", counterMetric, FALSE, core),
      lustreHelpStruct(<<"j","o","b","_","s","t","a","t","s">>, "job_stats_total", jobStatsHelp, counterMetric, TRUE, core),
      lustreHelpStruct(<<"n","u","m","_","e","x","p","o","r","t","s">>, "exports_total", "Total number of times the pool has been exported", counterMetric, FALSE, core),
      lustreHelpStruct(<<"r","e","c","o","v","e","r","y","_","t","i","m","e","_","h","a","r","d">>, "recovery_time_hard_seconds", "Maximum timeout 'recover_time_soft' can increment to for a single server", gaugeMetric, FALSE, extended),
      lustreHelpStruct(<<"r","e","c","o","v","e","r","y","_","t","i","m","e","_","s","o","f","t">>, "recovery_time_soft_seconds", "Duration in seconds for a client to attempt to reconnect after a crash (automatically incremented if servers are still in an error state)", gaugeMetric, FALSE, extended),
      lustreHelpStruct(<<"s","t","a","t","s">>, "read_samples_total", "readSamplesHelp", counterMetric, FALSE, core),
      lustreHelpStruct(<<"s","t","a","t","s">>, "read_minimum_size_bytes", "readMinimumHelp", gaugeMetric, FALSE, extended),
      lustreHelpStruct(<<"s","t","a","t","s">>, "read_maximum_size_bytes", "readMaximumHelp", gaugeMetric, FALSE, extended),
      lustreHelpStruct(<<"s","t","a","t","s">>, "read_bytes_total", "readTotalHelp", counterMetric, FALSE, core),
      lustreHelpStruct(<<"s","t","a","t","s">>, "write_samples_total", "writeSamplesHelp", counterMetric, FALSE, core),
      lustreHelpStruct(<<"s","t","a","t","s">>, "write_minimum_size_bytes", "writeMinimumHelp", gaugeMetric, FALSE, extended),
      lustreHelpStruct(<<"s","t","a","t","s">>, "write_maximum_size_bytes", "writeMaximumHelp", gaugeMetric, FALSE, extended),
      lustreHelpStruct(<<"s","t","a","t","s">>, "write_bytes_total", "writeTotalHelp", counterMetric, FALSE, core),
      lustreHelpStruct(<<"s","t","a","t","s">>, "stats_total", statsHelp, counterMetric, TRUE, core),
      lustreHelpStruct(<<"t","o","t","_","d","i","r","t","y">>, "exports_dirty_total", "Total number of exports that have been marked dirty", counterMetric, FALSE, core),
      lustreHelpStruct(<<"t","o","t","_","g","r","a","n","t","e","d">>, "exports_granted_total", "Total number of exports that have been marked granted", counterMetric, FALSE, core),
      lustreHelpStruct(<<"t","o","t","_","p","e","n","d","i","n","g">>, "exports_pending_total", "Total number of exports that have been marked pending", counterMetric, FALSE, core)
    >>)
  @@
  (<<"o","s","d","-","*","/","*","-","O","S","T","*">> :>
    <<
      lustreHelpStruct(<<"b","l","o","c","k","s","i","z","e">>, "blocksize_bytes", "Filesystem block size in bytes", gaugeMetric, FALSE, core),
      lustreHelpStruct(<<"b","r","w","_","s","t","a","t","s">>, "pages_per_bulk_rw_total", "pagesPerBlockRWHelp", counterMetric, FALSE, extended),
      lustreHelpStruct(<<"b","r","w","_","s","t","a","t","s">>, "discontiguous_pages_total", "discontiguousPagesHelp", counterMetric, FALSE, extended),
      lustreHelpStruct(<<"b","r","w","_","s","t","a","t","s">>, "disk_io", "diskIOsInFlightHelp", gaugeMetric, FALSE, core),
      lustreHelpStruct(<<"b","r","w","_","s","t","a","t","s">>, "io_time_milliseconds_total", "ioTimeHelp", counterMetric, FALSE, core),
      lustreHelpStruct(<<"b","r","w","_","s","t","a","t","s">>, "disk_io_total", "diskIOSizeHelp", counterMetric, FALSE, core),
      lustreHelpStruct(<<"f","i","l","e","s","f","r","e","e">>, "inodes_free", "The number of inodes (objects) available", gaugeMetric, FALSE, core),
      lustreHelpStruct(<<"f","i","l","e","s","t","o","t","a","l">>, "inodes_maximum", "The maximum number of inodes (objects) the filesystem can hold", gaugeMetric, FALSE, core),
      lustreHelpStruct(<<"k","b","y","t","e","s","f","r","e","e">>, "free_kilobytes", "Number of kilobytes free in the pool", gaugeMetric, FALSE, core),
      lustreHelpStruct(<<"k","b","y","t","e","s","a","v","a","i","l">>, "available_kilobytes", "Number of kilobytes readily available in the pool", gaugeMetric, FALSE, core),
      lustreHelpStruct(<<"k","b","y","t","e","s","t","o","t","a","l">>, "capacity_kilobytes", "Capacity of the pool in kilobytes", gaugeMetric, FALSE, core)
    >>)

\* metricMap of lustreProcFsSource.generateMDTMetricTemplates
procMDTMetricMap ==
  (<<"o","s","d","-","*","/","*","-","M","D","T","*">> :>
    <<
      lustreHelpStruct(<<"b","l","o","c","k","s","i","z","e">>, "blocksize_bytes", "Filesystem block size in bytes", gaugeMetric, FALSE, core),
      lustreHelpStruct(<<"f","i","l","e","s","f","r","e","e">>, "inodes_free", "The number of inodes (objects) available", gaugeMetric, FALSE, core),
      lustreHelpStruct(<<"f","i","l","e","s","t","o","t","a","l">>, "inodes_maximum", "The maximum number of inodes (objects) the filesystem can hold", gaugeMetric, FALSE, core),
      lustreHelpStruct(<<"k","b","y","t","e","s","a","v","a","i","l">>, "available_kilobytes", "Number of kilobytes readily available in the pool", gaugeMetric, FALSE, core),
      lustreHelpStruct(<<"k","b","y","t","e","s","f","r","e","e">>, "free_kilobytes", "Number of kilobytes free in the pool", gaugeMetric, FALSE, core),
      lustreHelpStruct(<<"k","b","y","t","e","s","t","o","t","a","l">>, "capacity_kilobytes", "Capacity of the pool in kilobytes", gaugeMetric, FALSE, core)
    >>)
  @@
  (<<"m","d","t","/","*">> :>
    <<
      lustreHelpStruct(<<"m","d","_","s","t","a","t","s">>, "stats_total", statsHelp, counterMetric, TRUE, core),
      lustreHelpStruct(<<"n","u","m","_","e","x","p","o","r","t","s">>, "exports_total", "Total number of times the pool has been exported", counterMetric, FALSE, core),
      lustreHelpStruct(<<"j","o","b","_","s","t","a","t","s">>, "job_stats_total", jobStatsHelp, counterMetric, TRUE, core)
    >>)

\* metricMap of lustreProcFsSource.generateMGSMetricTemplates
procMGSMetricMap ==
  (<<"m","g","s","/","M","G","S","/","o","s","d","/">> :>
    <<
      lustreHelpStruct(<<"b","l","o","c","k","s","i","z","e">>, "blocksize_bytes", "Filesystem block size in bytes", gaugeMetric, FALSE, core),
      lustreHelpStruct(<<"f","i","l","e","s","f","r","e","e">>, "inodes_free", "The number of inodes (objects) available", gaugeMetric, FALSE, core),
      lustreHelpStruct(<<"f","i","l","e","s","t","o","t","a","l">>, "inodes_maximum", "The maximum number of inodes (objects) the filesystem can hold", gaugeMetric, FALSE, core),
      lustreHelpStruct(<<"k","b","y","t","e","s","a","v","a","i","l">>, "available_kilobytes", "Number of kilobytes readily available in the pool", gaugeMetric, FALSE, core),
      lustreHelpStruct(<<"k","b","y","t","e","s","f","r","e","e">>, "free_kilobytes", "Number of kilobytes free in the pool", gaugeMetric, FALSE, core),
      lustreHelpStruct(<<"k","b","y","t","e","s","t","o","t","a","l">>, "capacity_kilobytes", "Capacity of the pool in kilobytes", gaugeMetric, FALSE, core)
    >>)

\* metricMap of lustreProcFsSource.generateMDSMetricTemplates (empty)
procMDSMetricMap ==
  <<>>

\* metricMap of lustreProcFsSource.generateClientMetricTemplates
procClientMetricMap ==
  (<<"l","l","i","t","e","/","*">> :>
    <<
      lustreHelpStruct(<<"b","l","o","c","k","s","i","z","e">>, "blocksize_bytes", "Filesystem block size in bytes", gaugeMetric, FALSE, core),
      lustreHelpStruct(<<"c","h","e","c","k","s","u","m","_","p","a","g","e","s">>, "checksum_pages_enabled", "Returns '1' if data checksumming is enabled for the client", gaugeMetric, FALSE, extended),
      lustreHelpStruct(<<"d","e","f","a","u","l","t","_","e","a","s","i","z","e">>, "default_ea_size_bytes", "Default Extended Attribute (EA) size in bytes", gaugeMetric, FALSE, extended),
      lustreHelpStruct(<<"f","i","l","e","s","f","r","e","e">>, "inodes_free", "The number of inodes (objects) available", gaugeMetric, FALSE, core),
      lustreHelpStruct(<<"f","i","l","e","s","t","o","t","a","l">>, "inodes_maximum", "The maximum number of inodes (objects) the filesystem can hold", gaugeMetric, FALSE, core),
      lustreHelpStruct(<<"k","b","y","t","e","s","a","v","a","i","l">>, "available_kilobytes", "Number of kilobytes readily available in the pool", gaugeMetric, FALSE, core),
      lustreHelpStruct(<<"k","b","y","t","e","s","f","r","e","e">>, "free_kilobytes", "Number of kilobytes free in the pool", gaugeMetric, FALSE, core),
      lustreHelpStruct(<<"k","b","y","t","e","s","t","o","t","a","l">>, "capacity_kilobytes", "Capacity of the pool in kilobytes", gaugeMetric, FALSE, core),
      lustreHelpStruct(<<"l","a","z","y","s","t","a","t","f","s">>, "lazystatfs_enabled", "Returns '1' if lazystatfs (a non-blocking alternative to statfs) is enabled for the client", gaugeMetric, FALSE, extended),
      lustreHelpStruct(<<"m","a","x","_","e","a","s","i","z","e">>, "maximum_ea_size_bytes", "Maximum Extended Attribute (EA) size in bytes", gaugeMetric, FALSE, extended),
      lustreHelpStruct(<<"m","a","x","_","r","e","a","d","_","a","h","e","a","d","_","m","b">>, "maximum_read_ahead_megabytes", "Maximum number of megabytes to read ahead", gaugeMetric, FALSE, extended),
      lustreHelpStruct(<<"m","a","x","_","r","e","a","d","_","a","h","e","a","d","_","p","e","r","_","f","i","l","e","_","m","b">>, "maximum_read_ahead_per_file_megabytes", "Maximum number of megabytes per file to read ahead", gaugeMetric, FALSE, extended),
      lustreHelpStruct(<<"m","a","x","_","r","e","a","d","_","a","h","e","a","d","_","w","h","o","l","e","_","m","b">>, "maximum_read_ahead_whole_megabytes", "Maximum file size in megabytes for a file to be read in its entirety", gaugeMetric, FALSE, extended),
      lustreHelpStruct(<<"s","t","a","t","a","h","e","a","d","_","a","g","l">>, "statahead_agl_enabled", "Returns '1' if the Asynchronous Glimpse Lock (AGL) for statahead is enabled", gaugeMetric, FALSE, extended),
      lustreHelpStruct(<<"s","t","a","t","a","h","e","a","d","_","m","a","x">>, "statahead_maximum", "Maximum window size for statahead", gaugeMetric, FALSE, extended),
      lustreHelpStruct(<<"s","t","a","t","s">>, "read_samples_total", "readSamplesHelp", counterMetric, FALSE, core),
      lustreHelpStruct(<<"s","t","a","t","s">>, "read_minimum_size_bytes", "readMinimumHelp", gaugeMetric, FALSE, extended),
      lustreHelpStruct(<<"s","t","a","t","s">>, "read_maximum_size_bytes", "readMaximumHelp", gaugeMetric, FALSE, extended),
      lustreHelpStruct(<<"s","t","a","t","s">>, "read_bytes_total", "readTotalHelp", counterMetric, FALSE, core),
      lustreHelpStruct(<<"s","t","a","t","s">>, "write_samples_total", "writeSamplesHelp", counterMetric, FALSE, core),
      lustreHelpStruct(<<"s","t","a","t","s">>, "write_minimum_size_bytes", "writeMinimumHelp", gaugeMetric, FALSE, extended),
      lustreHelpStruct(<<"s","t","a","t","s">>, "write_maximum_size_bytes", "writeMaximumHelp", gaugeMetric, FALSE, extended),
      lustreHelpStruct(<<"s","t","a","t","s">>, "write_bytes_total", "writeTotalHelp", counterMetric, FALSE, core),
      lustreHelpStruct(<<"s","t","a","t","s">>, "stats_total", statsHelp, counterMetric, TRUE, core),
      lustreHelpStruct(<<"x","a","t","t","r","_","c","a","c","h","e">>, "xattr_cache_enabled", "Returns '1' if extended attribute cache is enabled", gaugeMetric, FALSE, extended)
    >>)
  @@
  (<<"m","d","c","/","*">> :>
    <<
      lustreHelpStruct(<<"r","p","c","_","s","t","a","t","s">>, "rpcs_in_flight", "rpcsInFlightHelp", gaugeMetric, TRUE, core)
    >>)
  @@
  (<<"o","s","c","/","*">> :>
    <<
      lustreHelpStruct(<<"r","p","c","_","s","t","a","t","s">>, "pages_per_rpc_total", "pagesPerRPCHelp", counterMetric, FALSE, core),
      lustreHelpStruct(<<"r","p","c","_","s","t","a","t","s">>, "rpcs_in_flight", "rpcsInFlightHelp", gaugeMetric, TRUE, core),
      lustreHelpStruct(<<"r","p","c","_","s","t","a","t","s">>, "rpcs_offset", "offsetHelp", gaugeMetric, FALSE, core)
    >>)

\* metricMap of lustreProcFsSource.generateGenericMetricTemplates
procGenericMetricMap ==
  (<<"s","p","t","l","r","p","c">> :>
    <<
      lustreHelpStruct(<<"e","n","c","r","y","p","t","_","p","a","g","e","_","p","o","o","l","s">>, "physical_pages", "physicalPagesHelp", gaugeMetric, FALSE, extended),
      lustreHelpStruct(<<"e","n","c","r","y","p","t","_","p","a","g","e","_","p","o","o","l","s">>, "pages_per_pool", "pagesPerPoolHelp", gaugeMetric, FALSE, extended),
      lustreHelpStruct(<<"e","n","c","r","y","p","t","_","p","a","g","e","_","p","o","o","l","s">>, "maximum_pages", "maxPagesHelp", gaugeMetric, FALSE, extended),
      lustreHelpStruct(<<"e","n","c","r","y","p","t","_","p","a","g","e","_","p","o","o","l","s">>, "maximum_pools", "maxPoolsHelp", gaugeMetric, FALSE, extended),
      lustreHelpStruct(<<"e","n","c","r","y","p","t","_","p","a","g","e","_","p","o","o","l","s">>, "pages_in_pools", "totalPagesHelp", gaugeMetric, FALSE, extended),
      lustreHelpStruct(<<"e","n","c","r","y","p","t","_","p","a","g","e","_","p","o","o","l","s">>, "free_pages", "totalFreeHelp", gaugeMetric, FALSE, extended),
      lustreHelpStruct(<<"e","n","c","r","y","p","t","_","p","a","g","e","_","p","o","o","l","s">>, "maximum_pages_reached_total", "maxPagesReachedHelp", counterMetric, FALSE, extended),
      lustreHelpStruct(<<"e","n","c","r","y","p","t","_","p","a","g","e","_","p","o","o","l","s">>, "grows_total", "growsHelp", counterMetric, FALSE, extended),
      lustreHelpStruct(<<"e","n","c","r","y","p","t","_","p","a","g","e","_","p","o","o","l","s">>, "grows_failure_total", "growsFailureHelp", counterMetric, FALSE, extended),
      lustreHelpStruct(<<"e","n","c","r","y","p","t","_","p","a","g","e","_","p","o","o","l","s">>, "shrinks_total", "shrinksHelp", counterMetric, FALSE, extended),
      lustreHelpStruct(<<"e","n","c","r","y","p","t","_","p","a","g","e","_","p","o","o","l","s">>, "cache_access_total", "cacheAccessHelp", counterMetric, FALSE, extended),
      lustreHelpStruct(<<"e","n","c","r","y","p","t","_","p","a","g","e","_","p","o","o","l","s">>, "cache_miss_total", "cacheMissingHelp", counterMetric, FALSE, extended),
      lustreHelpStruct(<<"e","n","c","r","y","p","t","_","p","a","g","e","_","p","o","o","l","s">>, "free_page_low", "lowFreeMarkHelp", gaugeMetric, FALSE, extended),
      lustreHelpStruct(<<"e","n","c","r","y","p","t","_","p","a","g","e","_","p","o","o","l","s">>, "maximum_waitqueue_depth", "maxWaitQueueDepthHelp", gaugeMetric, FALSE, extended),
      lustreHelpStruct(<<"e","n","c","r","y","p","t","_","p","a","g","e","_","p","o","o","l","s">>, "out_of_memory_request_total", "outOfMemHelp", counterMetric, FALSE, extended)
    >>)

\* metricMap of lustreSysSource.generateHealthStatusTemplates
sysHealthMetricMap ==
  (<<>> :>
    <<
      lustreHelpStruct(<<"h","e","a","l","t","h","_","c","h","e","c","k">>, "health_check", "Current health status for the indicated instance: 1 refers to 'healthy', 0 refers to 'unhealthy'", gaugeMetric, FALSE, core)
    >>)

\* metricMap of lustreSysSource.generateOSTMetricTemplates
sysOSTMetricMap ==
  (<<"o","b","d","f","i","l","t","e","r","/","*","-","O","S","T","*">> :>
    <<
      lustreHelpStruct(<<"d","e","g","r","a","d","e","d">>, "degraded", "Binary indicator as to whether or not the pool is degraded - 0 for not degraded, 1 for degraded", gaugeMetric, FALSE, core),
      lustreHelpStruct(<<"g","r","a","n","t","_","p","r","e","c","r","e","a","t","e">>, "grant_precreate_capacity_bytes", "Maximum space in bytes that clients can preallocate for objects", gaugeMetric, FALSE, extended),
      lustreHelpStruct(<<"l","f","s","c","k","_","s","p","e","e","d","_","l","i","m","i","t">>, "lfsck_speed_limit", "Maximum operations per second LFSCK (Lustre filesystem verification) can run", gaugeMetric, FALSE, extended),
      lustreHelpStruct(<<"p","r","e","c","r","e","a","t","e","_","b","a","t","c","h">>, "precreate_batch", "Maximum number of objects that can be included in a single transaction", gaugeMetric, FALSE, extended),
      lustreHelpStruct(<<"s","o","f","t","_","s","y","n","c","_","l","i","m","i","t">>, "soft_sync_limit", "Number of RPCs necessary before triggering a sync", gaugeMetric, FALSE, extended),
      lustreHelpStruct(<<"s","y","n","c","_","j","o","u","r","n","a","l">>, "sync_journal_enabled", "Binary indicator as to whether or not the journal is set for asynchronous commits", gaugeMetric, FALSE, extended)
    >>)
  @@
  (<<"l","d","l","m","/","n","a","m","e","s","p","a","c","e","s","/","f","i","l","t","e","r","-","*">> :>
    <<
      lustreHelpStruct(<<"l","o","c","k","_","c","o","u","n","t">>, "lock_count", "Number of locks", gaugeMetric, FALSE, extended),
      lustreHelpStruct(<<"l","o","c","k","_","t","i","m","e","o","u","t","s">>, "lock_timeout", "Number of lock timeouts", counterMetric, FALSE, extended),
      lustreHelpStruct(<<"c","o","n","t","e","n","d","e","d","_","l","o","c","k","s">>, "lock_contended", "Number of contended locks", gaugeMetric, FALSE, extended),
      lustreHelpStruct(<<"c","o","n","t","e","n","t","i","o","n","_","s","e","c","o","n","d","s">>, "lock_contention_seconds", "Time in seconds during which locks were contended", gaugeMetric, FALSE, extended),
      lustreHelpStruct(<<"p","o","o","l","/","g","r","a","n","t","e","d">>, "lock_granted", "Number of granted locks", gaugeMetric, FALSE, extended),
      lustreHelpStruct(<<"p","o","o","l","/","g","r","a","n","t","_","p","l","a","n">>, "lock_grant_plan", "Number of planned lock grants per second", gaugeMetric, FALSE, extended),
      lustreHelpStruct(<<"p","o","o","l","/","g","r","a","n","t","_","r","a","t","e">>, "lock_grant_rate", "Lock grant rate", gaugeMetric, FALSE, extended)
    >>)

\* a range over a Go map visits the keys in an unspecified order
MapOrders(keys) ==
  {order \in [1..Cardinality(keys) -> keys] :
     \A i, j \in 1..Cardinality(keys) : i # j => order[i] # order[j]}

\* the generator loop with a filter that tests the priority level only
GenerateMetricTemplatesMutCoreOnly(lustreProcMetrics, metricMap, source, filter) ==
  {lustreProcMetrics \o
     Concat([k \in 1..Len(order) |->
       LET items == SelectSeq(metricMap[order[k]],
                              LAMBDA item : item.priorityLevel = core)
       IN [i \in 1..Len(items) |->
             newLustreProcMetric(items[i].filename, items[i].promName, source, order[k],
                                 items[i].helpText, items[i].hasMultipleVals,
                                 items[i].metricFunc)]]) :
     order \in MapOrders(DOMAIN metricMap)}

\* the loop every generate...Templates method runs over its metricMap: the
\* lists it can leave in s.lustreProcMetrics, one per order of the map's keys
generateMetricTemplates(lustreProcMetrics, metricMap, source, filter) ==
  {lustreProcMetrics \o
     Concat([k \in 1..Len(order) |->
       LET items == SelectSeq(metricMap[order[k]],
                              LAMBDA item : filter = extended \/ item.priorityLevel = core)
       IN [i \in 1..Len(items) |->
             newLustreProcMetric(items[i].filename, items[i].promName, source, order[k],
                                 items[i].helpText, items[i].hasMultipleVals,
                                 items[i].metricFunc)]]) :
     order \in MapOrders(DOMAIN metricMap)}

ProcLocation == <<"/","p","r","o","c">>

SysLocation == <<"/","s","y","s">>

\* one generator call of a constructor on each list of ls, guarded by the
\* constructor's test of the component's level
GenerateUnlessDisabled(ls, metricMap, source, enabled) ==
  IF enabled # disabled
  THEN UNION {generateMetricTemplates(l, metricMap, source, enabled) : l \in ls}
  ELSE ls

\* the sources newLustreProcFsSource can return under the given flags
newLustreProcFsSource(flags) ==
  LET ost == GenerateUnlessDisabled({<<>>}, procOSTMetricMap, "ost", flags.OstEnabled)
      mdt == GenerateUnlessDisabled(ost, procMDTMetricMap, "mdt", flags.MdtEnabled)
      mgs == GenerateUnlessDisabled(mdt, procMGSMetricMap, "mgs", flags.MgsEnabled)
      mds == GenerateUnlessDisabled(mgs, procMDSMetricMap, "mds", flags.MdsEnabled)
      client == GenerateUnlessDisabled(mds, procClientMetricMap, "client", flags.ClientEnabled)
      generic == GenerateUnlessDisabled(client, procGenericMetricMap, "generic",
                                        flags.GenericEnabled)
  IN {[lustreProcMetrics |-> l,
       basePath |-> Join(<<ProcLocation, <<"f","s","/","l","u","s","t","r","e">>>>, <<"/">>)] : l \in generic}

newLustreSysSource(flags) ==
  LET health == GenerateUnlessDisabled({<<>>}, sysHealthMetricMap, "health",
                                       flags.HealthStatusEnabled)
      ost == GenerateUnlessDisabled(health, sysOSTMetricMap, "ost", flags.OstEnabled)
  IN {[lustreProcMetrics |-> l,
       basePath |-> Join(<<SysLocation, <<"f","s","/","l","u","s","t","r","e">>>>, <<"/">>)] : l \in ost}

changelogUsersCmdArg == <<"m","d","d",".","*","-","*",".","c","h","a","n","g","e","l","o","g","_","u","s","e","r","s">>

generateMDTMetricCreator(metricCreator, filter) ==
  IF filter = extended
  THEN Append(metricCreator, [argument |-> changelogUsersCmdArg,
                              metricHandler |-> "createMDTChangelogUsersMetrics"])
  ELSE metricCreator

\* env: LctlCommandMode and the outcomes of exec.LookPath and user.Current
newLustreLctlSource(flags, env) ==
  IF env.LctlCommandMode
     /\ (~env.lctl \/ ~env.user \/ (~env.root /\ ~env.sudo))
  THEN None
  ELSE [metricCreator |-> generateMDTMetricCreator(<<>>, flags.MdtEnabled)]

Levels == {extended, core, disabled}

Flags ==
  [OstEnabled : Levels, MdtEnabled : Levels, MgsEnabled : Levels, MdsEnabled : Levels,
   ClientEnabled : Levels, GenericEnabled : Levels, HealthStatusEnabled : Levels]

LctlEnvironments ==
  [LctlCommandMode : BOOLEAN, lctl : BOOLEAN, user : BOOLEAN, root : BOOLEAN, sudo : BOOLEAN]

InitSources ==
  /\ pc = "call"
  /\ input \in {[fn |-> "loadSources", flags |-> f] : f \in Flags}
  /\ output = None

CallNewLustreProcFsSource ==
  /\ pc = "call"
  /\ input.fn = "loadSources"
  /\ \E s \in newLustreProcFsSource(input.flags) :
       output' = [call |-> "procfs", ret |-> s]
  /\ pc' = "done"
  /\ UNCHANGED input

CallNewLustreSysSource ==
  /\ pc = "call"
  /\ input.fn = "loadSources"
  /\ \E s \in newLustreSysSource(input.flags) :
       output' = [call |-> "sysfs", ret |-> s]
  /\ pc' = "done"
  /\ UNCHANGED input

CallNewLustreLctlSource ==
  /\ pc = "call"
  /\ input.fn = "loadSources"
  /\ \E env \in LctlEnvironments :
       output' = [call |-> "lctl", env |-> env, ret |-> newLustreLctlSource(input.flags, env)]
  /\ pc' = "done"
  /\ UNCHANGED input

NextSources ==
  \/ CallNewLustreProcFsSource
  \/ CallNewLustreSysSource
  \/ CallNewLustreLctlSource

SpecSources == InitSources /\ [][NextSources]_vars

(***************************************************************************)
(* Claims about the enable levels (checked under SpecSources)              *)
(***************************************************************************)
\* the rows of a catalog a level admits, each with the path it is listed under
AdmittedRows(metricMap, level) ==
  UNION {{[path |-> p, filename |-> metricMap[p][i].filename,
           promName |-> metricMap[p][i].promName] :
            i \in {k \in 1..Len(metricMap[p]) :
                     \/ level = extended
                     \/ level = core /\ metricMap[p][k].priorityLevel = core}} :
         p \in DOMAIN metricMap}

\* the templates a source holds for a component
TemplatesOf(lustreProcMetrics, source) ==
  SelectSeq(lustreProcMetrics, LAMBDA t : t.source = source)

TemplateKeys(templates) ==
  {[path |-> templates[i].path, filename |-> templates[i].filename,
    promName |-> templates[i].promName] : i \in 1..Len(templates)}

LevelHonoured(lustreProcMetrics, source, metricMap, level) ==
  LET templates == TemplatesOf(lustreProcMetrics, source)
  IN /\ TemplateKeys(templates) = AdmittedRows(metricMap, level)
     /\ Len(templates) = Cardinality(AdmittedRows(metricMap, level))

AllExtended == [f \in DOMAIN CHOOSE g \in Flags : TRUE |-> extended]

\* the templates of the sources built with every component at level extended
ExtendedProcTemplates ==
  UNION {Range(s.lustreProcMetrics) : s \in newLustreProcFsSource(AllExtended)}

ExtendedSysTemplates ==
  UNION {Range(s.lustreProcMetrics) : s \in newLustreSysSource(AllExtended)}

\* C13: for every component of every source the templates contributed at
\* level extended are all templates of the component, at level core exactly
\* the templates whose priorityLevel is core, at level disabled none, so that
\* the templates of a lower level are among those of a higher level; the
\* changelog creator of the metadata target is contributed at extended only
C13_EnableLevelsAdditive ==
  (pc = "done" /\ input.fn = "loadSources")
  => LET f == input.flags
     IN /\ output.call = "procfs"
           => LET l == output.ret.lustreProcMetrics
              IN /\ LevelHonoured(l, "ost", procOSTMetricMap, f.OstEnabled)
                 /\ LevelHonoured(l, "mdt", procMDTMetricMap, f.MdtEnabled)
                 /\ LevelHonoured(l, "mgs", procMGSMetricMap, f.MgsEnabled)
                 /\ LevelHonoured(l, "mds", procMDSMetricMap, f.MdsEnabled)
                 /\ LevelHonoured(l, "client", procClientMetricMap, f.ClientEnabled)
                 /\ LevelHonoured(l, "generic", procGenericMetricMap, f.GenericEnabled)
                 /\ Range(l) \subseteq ExtendedProcTemplates
        /\ output.call = "sysfs"
           => LET l == output.ret.lustreProcMetrics
              IN /\ LevelHonoured(l, "health", sysHealthMetricMap, f.HealthStatusEnabled)
                 /\ LevelHonoured(l, "ost", sysOSTMetricMap, f.OstEnabled)
                 /\ Range(l) \subseteq ExtendedSysTemplates
        /\ (output.call = "lctl" /\ output.ret # None)
           => Len(output.ret.metricCreator) = (IF f.MdtEnabled = extended THEN 1 ELSE 0)

C13_Witness ==
  /\ pc = "done" /\ input.fn = "loadSources" /\ output.call = "procfs"
  /\ input.flags.OstEnabled = core
  /\ input.flags.MdtEnabled = extended
  /\ input.flags.ClientEnabled = disabled
  /\ LET l == output.ret.lustreProcMetrics
     IN /\ Len(TemplatesOf(l, "ost")) > 0
        /\ Len(TemplatesOf(l, "ost")) < Cardinality(AdmittedRows(procOSTMetricMap, extended))
        /\ Len(TemplatesOf(l, "mdt")) = Cardinality(AdmittedRows(procMDTMetricMap, extended))
        /\ TemplatesOf(l, "client") = <<>>

(***************************************************************************)
(* lustreProcFsSource.parseBRWStats: one section of a brw_stats or         *)
(* rpc_stats file                                                          *)
(***************************************************************************)
\* metricBlocks: help text -> title of the section
metricBlocks ==
  {[help |-> "pagesPerBlockRWHelp", title |-> <<"p","a","g","e","s"," ","p","e","r"," ","b","u","l","k"," ","r","/","w">>],
   [help |-> "discontiguousPagesHelp", title |-> <<"d","i","s","c","o","n","t","i","g","u","o","u","s"," ","p","a","g","e","s">>],
   [help |-> "diskIOsInFlightHelp", title |-> <<"d","i","s","k"," ","I","/","O","s"," ","i","n"," ","f","l","i","g","h","t">>],
   [help |-> "ioTimeHelp", title |-> <<"I","/","O"," ","t","i","m","e">>],
   [help |-> "diskIOSizeHelp", title |-> <<"d","i","s","k"," ","I","/","O"," ","s","i","z","e">>],
   [help |-> "pagesPerRPCHelp", title |-> <<"p","a","g","e","s"," ","p","e","r"," ","r","p","c">>],
   [help |-> "rpcsInFlightHelp", title |-> <<"r","p","c","s"," ","i","n"," ","f","l","i","g","h","t">>],
   [help |-> "offsetHelp", title |-> <<"o","f","f","s","e","t">>]}

\* metricBlocks[helpText]: the empty string for a help text that is no key
MetricBlockTitle(helpText) ==
  IF \E b \in metricBlocks : b.help = helpText
  THEN (CHOOSE b \in metricBlocks : b.help = helpText).title
  ELSE <<>>

\* regexCaptureString("(?ms:^" + title + ".*?(\n\n|\z))", text): the first
\* match starts at the first line that begins with the title and runs to the
\* first blank line (included) or else to the end of the text
regexCaptureBlock(title, text) ==
  LET starts == {p \in 1..Len(text) :
                   /\ p = 1 \/ text[p - 1] = "\n"
                   /\ p + Len(title) - 1 <= Len(text)
                   /\ SubSeq(text, p, p + Len(title) - 1) = title}
  IN IF starts = {} THEN <<>>
     ELSE LET p == Min(starts)
              ends == {q \in (p + Len(title))..(Len(text) - 1) :
                         text[q] = "\n" /\ text[q + 1] = "\n"}
          IN IF ends = {} THEN SubSeq(text, p, Len(text))
             ELSE SubSeq(text, p, Min(ends) + 1)

\* the arguments of one call of the handler closure
HandlerCall(nodeType, keys, nodeName, name, helpText, value, extraLabel, extraLabelValue) ==
  [nodeType |-> nodeType, keys |-> keys, nodeName |-> nodeName, name |-> name,
   helpText |-> helpText, value |-> value, extraLabel |-> extraLabel,
   extraLabelValue |-> extraLabelValue]

\* parseBRWStats that passes on the buckets of non-zero count only
ParseBRWStatsMutDropZero(nodeType, path, directoryDepth, helpText, promName, hasMultipleVals, file) ==
  LET fe == parseFileElements(path, directoryDepth)
      block == regexCaptureBlock(MetricBlockTitle(helpText), file.content)
      split == splitBRWStats(block)
      kept == SelectSeq(split.metricList, LAMBDA item : ~IsZero(ParseFloat(item.value).val))
  IN Ret(FALSE, [i \in 1..Len(kept) |->
                   HandlerCall(nodeType, <<kept[i].operation, convertToBytes(kept[i].size)>>,
                               fe.nodeName, promName, helpText, ParseFloat(kept[i].value).val,
                               "", <<>>)])

\* parseBRWStats that takes the type from the last directory of the path
ParseBRWStatsMutLastDirectory(nodeType, path, directoryDepth, helpText, promName, hasMultipleVals, file) ==
  LET fe == parseFileElements(path, directoryDepth)
      block == regexCaptureBlock(MetricBlockTitle(helpText), file.content)
      split == splitBRWStats(block)
      pathElements == Split(path, "/")
      metricList == split.metricList
  IN Ret(FALSE, [i \in 1..Len(metricList) |->
                   HandlerCall(nodeType,
                               <<metricList[i].operation, convertToBytes(metricList[i].size)>>,
                               fe.nodeName, promName, helpText,
                               ParseFloat(metricList[i].value).val,
                               IF hasMultipleVals THEN "type" ELSE "",
                               IF hasMultipleVals THEN pathElements[Len(pathElements) - 1]
                               ELSE <<>>)])

\* parseBRWStats that passes over a row whose count is no number and goes on
\* with the next row
ParseBRWStatsMutSkipBadRow(nodeType, path, directoryDepth, helpText, promName, hasMultipleVals, file) ==
  LET fe == parseFileElements(path, directoryDepth)
      block == regexCaptureBlock(MetricBlockTitle(helpText), file.content)
      split == splitBRWStats(block)
      kept == SelectSeq(split.metricList, LAMBDA item : ~ParseFloat(item.value).err)
  IN Ret(Len(kept) < Len(split.metricList),
         [i \in 1..Len(kept) |->
            HandlerCall(nodeType, <<kept[i].operation, convertToBytes(kept[i].size)>>,
                        fe.nodeName, promName, helpText, ParseFloat(kept[i].value).val,
                        "", <<>>)])

\* the handler calls parseBRWStats makes, in order, and the error it returns
parseBRWStats(nodeType, path, directoryDepth, helpText, promName, hasMultipleVals, file) ==
  LET fe == parseFileElements(path, directoryDepth)
  IN IF fe.kind = "panic" THEN Panic
     ELSE IF fe.kind = "error" THEN Ret(TRUE, <<>>)
     ELSE IF ~file.readable THEN Ret(TRUE, <<>>)
     ELSE LET block == regexCaptureBlock(MetricBlockTitle(helpText), file.content)
              split == splitBRWStats(block)
              pathElements == Split(path, "/")
          IN IF split.kind = "panic" THEN Panic
             ELSE IF split.err THEN Ret(TRUE, <<>>)
             ELSE IF hasMultipleVals /\ Len(pathElements) < 3 THEN Panic
             ELSE LET metricList == split.metricList
                      extraLabel == IF hasMultipleVals THEN "type" ELSE ""
                      extraLabelValue == IF hasMultipleVals
                                         THEN pathElements[Len(pathElements) - 2] ELSE <<>>
                      bad == {i \in 1..Len(metricList) : ParseFloat(metricList[i].value).err}
                      n == IF bad = {} THEN Len(metricList) ELSE Min(bad) - 1
                  IN Ret(bad # {},
                         [i \in 1..n |->
                            HandlerCall(nodeType,
                                        <<metricList[i].operation,
                                          convertToBytes(metricList[i].size)>>,
                                        fe.nodeName, promName, helpText,
                                        ParseFloat(metricList[i].value).val,
                                        extraLabel, extraLabelValue)])

\* the handler that declares no extra label and still sends its value
ProcHandlerMutDropExtraLabel(metricFunc, keyLabels, c) ==
  IF c.extraLabelValue = <<>>
  THEN Metric(metricFunc, <<"component", "target">> \o keyLabels,
              <<c.nodeType, c.nodeName>> \o c.keys, c.name, c.helpText, c.value)
  ELSE Metric(metricFunc, <<"component", "target">> \o keyLabels,
              <<c.nodeType, c.nodeName>> \o c.keys \o <<c.extraLabelValue>>,
              c.name, c.helpText, c.value)

\* a handler that sends the component and the target only
ProcHandlerMutNoKeys(metricFunc, keyLabels, c) ==
  Metric(metricFunc, <<"component", "target">>, <<c.nodeType, c.nodeName>>, c.name,
         c.helpText, c.value)

\* the closure lustreProcFsSource.Update hands to a parser: keyLabels are
\* the labels between "target" and the extra label
ProcHandler(metricFunc, keyLabels, c) ==
  IF c.extraLabelValue = <<>>
  THEN Metric(metricFunc, <<"component", "target">> \o keyLabels,
              <<c.nodeType, c.nodeName>> \o c.keys, c.name, c.helpText, c.value)
  ELSE Metric(metricFunc, <<"component", "target">> \o keyLabels \o <<c.extraLabel>>,
              <<c.nodeType, c.nodeName>> \o c.keys \o <<c.extraLabelValue>>,
              c.name, c.helpText, c.value)

\* what the channel receives for the handler calls of one parser run
RECURSIVE SendAll(_, _, _)
SendAll(metricFunc, keyLabels, calls) ==
  IF Len(calls) = 0 THEN <<>>
  ELSE <<ProcHandler(metricFunc, keyLabels, Head(calls))>>
         \o SendAll(metricFunc, keyLabels, Tail(calls))

(***************************************************************************)
(* Inputs of parseBRWStats: brw_stats and rpc_stats files in the layout    *)
(* the kernel writes, with one section of chosen rows and one fixed section*)
(***************************************************************************)
MaxSizes == 2

\* the sizes a section can list, in the order of the file
BRWSizeDomain == SubSeq(<<<<"1">>, <<"4","K">>, <<"1","M">>, <<"2","G">>>>, 1, MaxSizes)

\* a size of the domain has no row, a row of both sides or a row of the read
\* side only
BRWRowChoices ==
  {[form |-> "absent", read |-> 0, write |-> 0]}
  \cup {[form |-> "dual", read |-> c[1], write |-> c[2]] : c \in {<<0, 0>>, <<7, 0>>, <<0, 7>>}}
  \cup {[form |-> "single", read |-> r, write |-> 0] : r \in {0, 7}}

RenderBRWFileRow(size, row) ==
  IF row.form = "absent" THEN <<>>
  ELSE size \o <<":", "\t", "\t", " ">> \o FormatNat(row.read) \o <<" ","5","0"," ","5","0">>
         \o (IF row.form = "dual"
             THEN <<" "," "," ","|"," "," "," "," ">> \o FormatNat(row.write) \o <<" ","5","0"," ","5","0">> ELSE <<>>)
         \o <<"\n">>

RenderBRWFile(f) ==
  LET preamble == <<"s","n","a","p","s","h","o","t","_","t","i","m","e",":"," "," "," "," "," "," "," "," "," ","1","4","7","9","4","1","0","0","6","1",".","1","7","2","4","1","9"," ","(","s","e","c","s",".","u","s","e","c","s",")">> \o <<"\n", "\n">>
      sides == <<" "," "," "," "," "," "," "," "," "," "," "," "," "," "," "," "," "," "," "," "," "," "," "," "," "," "," ","r","e","a","d"," "," "," "," "," "," ","|"," "," "," "," "," ","w","r","i","t","e">> \o <<"\n">>
      columns == <<" "," "," "," "," ","r","p","c","s"," "," ","%"," ","c","u","m"," ","%"," ","|"," "," ","r","p","c","s"," "," "," "," "," "," "," "," ","%"," ","c","u","m"," ","%">> \o <<"\n">>
      chosen == sides \o f.title \o columns
                  \o Concat([k \in 1..Len(BRWSizeDomain) |->
                               RenderBRWFileRow(BRWSizeDomain[k], f.rows[k])])
      fixed == sides \o f.other \o columns \o <<"3","2",":"," "," ","3"," ","1","0","0"," ","1","0","0"," "," "," ","|"," "," "," "," ","5"," ","1","0","0"," ","1","0","0">> \o <<"\n">>
  IN IF f.first THEN preamble \o chosen \o <<"\n">> \o fixed
     ELSE preamble \o fixed \o <<"\n">> \o chosen

\* the templates of brw_stats and rpc_stats files
BRWTemplates ==
  {t \in ExtendedProcTemplates : t.filename \in {<<"b","r","w","_","s","t","a","t","s">>, <<"r","p","c","_","s","t","a","t","s">>}}

\* a path the glob of a template can return
BRWPathOf(t) ==
  Join(<<ProcLocation, <<"f","s","/","l","u","s","t","r","e">>>>, <<"/">>)
    \o (IF t.path = <<"o","s","d","-","*","/","*","-","O","S","T","*">> THEN <<"/","o","s","d","-","l","d","i","s","k","f","s","/","l","u","s","t","r","e","-","O","S","T","0","0","0","0","/">>
        ELSE IF t.path = <<"m","d","c","/","*">> THEN <<"/","m","d","c","/","l","u","s","t","r","e","-","M","D","T","0","0","0","0","-","m","d","c","-","f","f","f","f","8","8","0","3","/">>
        ELSE <<"/","o","s","c","/","l","u","s","t","r","e","-","O","S","T","0","0","0","0","-","o","s","c","-","f","f","f","f","8","8","0","3","/">>)
    \o t.filename

BRWFiles(t) ==
  LET requested == MetricBlockTitle(t.helpText)
      alternative == IF requested = <<"d","i","s","c","o","n","t","i","g","u","o","u","s"," ","p","a","g","e","s">> THEN <<"o","f","f","s","e","t">>
                     ELSE <<"d","i","s","c","o","n","t","i","g","u","o","u","s"," ","p","a","g","e","s">>
  IN {[title |-> title, other |-> IF requested = <<"I","/","O"," ","t","i","m","e">> THEN <<"d","i","s","k"," ","I","/","O","s"," ","i","n"," ","f","l","i","g","h","t">>
                                  ELSE <<"I","/","O"," ","t","i","m","e">>,
       rows |-> rows, first |-> first] :
        title \in {requested, alternative},
        rows \in [1..Len(BRWSizeDomain) -> BRWRowChoices],
        first \in BOOLEAN}

InitBRWFile ==
  /\ pc = "call"
  /\ input \in UNION {{[fn |-> "brwFile", metric |-> t, path |-> BRWPathOf(t), layout |-> f,
                        file |-> [readable |-> TRUE, content |-> RenderBRWFile(f)]] :
                         f \in BRWFiles(t)} : t \in BRWTemplates}
  /\ output = None

\* the case "brw_stats", "rpc_stats" of lustreProcFsSource.Update for one path
CallParseBRWStats ==
  /\ pc = "call"
  /\ input.fn = "brwFile"
  /\ LET metric == input.metric
         ret == parseBRWStats(metric.source, input.path, 0, metric.helpText, metric.promName,
                              metric.hasMultipleVals, input.file)
     IN output' = [call |-> "parseBRWStats",
                   ret |-> IF ret.kind = "panic" THEN ret
                           ELSE Ret(ret.err,
                                    SendAll(metric.metricFunc, <<"operation", "size">>,
                                            ret.sent))]
  /\ pc' = "done"
  /\ UNCHANGED input

NextBRWFile == CallParseBRWStats

SpecBRWFile == InitBRWFile /\ [][NextBRWFile]_vars

(***************************************************************************)
(* Claims about the histogram parser (checked under SpecBRWFile)           *)
(***************************************************************************)
\* the size label in bytes
SizeInBytes(size) ==
  CASE size = <<"1">> -> <<"1">>
    [] size = <<"4","K">> -> <<"4","0","9","6">>
    [] size = <<"1","M">> -> <<"1","0","4","8","5","7","6">>
    [] size = <<"2","G">> -> <<"2","1","4","7","4","8","3","6","4","8">>

Bucket(operation, size, count) ==
  [operation |-> operation, size |-> SizeInBytes(size), value |-> FloatOfNat(count)]

\* the buckets of the rows the requested section has in the text
BucketsInText(layout) ==
  Concat([k \in 1..Len(BRWSizeDomain) |->
    IF layout.rows[k].form = "dual"
    THEN <<Bucket("read", BRWSizeDomain[k], layout.rows[k].read),
           Bucket("write", BRWSizeDomain[k], layout.rows[k].write)>>
    ELSE IF layout.rows[k].form = "single"
    THEN <<Bucket("read", BRWSizeDomain[k], layout.rows[k].read)>>
    ELSE <<>>])

BucketsSent(sent) ==
  [i \in 1..Len(sent) |-> [operation |-> sent[i].labelValues[3],
                           size |-> sent[i].labelValues[4], value |-> sent[i].value]]

SectionRequested == input.layout.title = MetricBlockTitle(input.metric.helpText)

\* C18 as stated: the output has a bucket for every size of the section's
\* size domain, whether or not the text has a row for it
C18_BRWEntireDomain ==
  (pc = "done" /\ input.fn = "brwFile" /\ SectionRequested)
  => \A k \in 1..Len(BRWSizeDomain) :
       \E i \in 1..Len(output.ret.sent) :
         output.ret.sent[i].labelValues[4] = SizeInBytes(BRWSizeDomain[k])

\* C18 (amended): the output of the histogram parser has exactly the buckets
\* of the data rows the requested section has in the text, in text order: a
\* read and a write bucket for a two-sided row, a read bucket for a one-sided
\* row; a row whose count is 0 is emitted with value 0, a size without a row
\* yields nothing, and a file without the section yields nothing
C18_BRWRowsOfText ==
  (pc = "done" /\ input.fn = "brwFile")
  => /\ output.ret.kind = "ret"
     /\ ~output.ret.err
     /\ BucketsSent(output.ret.sent)
          = (IF SectionRequested THEN BucketsInText(input.layout) ELSE <<>>)
     /\ \A i \in 1..Len(output.ret.sent) :
          /\ output.ret.sent[i].name = input.metric.promName
          /\ output.ret.sent[i].kind = input.metric.metricFunc

C18_Witness ==
  /\ pc = "done" /\ input.fn = "brwFile" /\ SectionRequested
  /\ input.layout.rows[1] = [form |-> "dual", read |-> 0, write |-> 7]
  /\ input.layout.rows[2].form = "absent"
  /\ ~input.layout.first
  /\ Len(output.ret.sent) = 2
  /\ output.ret.sent[1].value = FloatOfNat(0)
  /\ output.ret.sent[1].labelValues[3] = "read"
  /\ output.ret.sent[2].value = FloatOfNat(7)

(***************************************************************************)
(* Update of the three sources: the resolver, the dispatch on the file     *)
(* name and the handler closures.  The file system is the sequence of the  *)
(* files below the base paths in the order a directory walk lists them     *)
(***************************************************************************)
\* filepath.Match from the piece k of the pattern on, the pieces being what
\* stands between its "*", and the name read up to position j - 1: a "*"
\* stands for any run of characters other than "/"
RECURSIVE GlobPiecesAt(_, _, _, _)
GlobPiecesAt(pieces, k, name, j) ==
  \E p \in j..(Len(name) + 1) :
    /\ \A q \in j..(p - 1) : name[q] # "/"
    /\ p + Len(pieces[k]) - 1 <= Len(name)
    /\ SubSeq(name, p, p + Len(pieces[k]) - 1) = pieces[k]
    /\ IF k = Len(pieces) THEN p + Len(pieces[k]) - 1 = Len(name)
       ELSE GlobPiecesAt(pieces, k + 1, name, p + Len(pieces[k]))

\* filepath.Match(pattern, name) for patterns of characters and "*"
GlobMatch(pattern, name) ==
  LET pieces == Split(pattern, "*")
  IN /\ Len(pieces[1]) <= Len(name)
     /\ SubSeq(name, 1, Len(pieces[1])) = pieces[1]
     /\ IF Len(pieces) = 1 THEN Len(name) = Len(pieces[1])
        ELSE GlobPiecesAt(pieces, 2, name, Len(pieces[1]) + 1)

\* filepath.Clean of a joined path: repeated separators collapse
Clean(path) ==
  LET kept == SelectSeq([i \in 1..Len(path) |-> i],
                        LAMBDA i : ~(i > 1 /\ path[i] = "/" /\ path[i - 1] = "/"))
  IN [k \in 1..Len(kept) |-> path[kept[k]]]

\* filepath.Join: the non-empty elements joined by "/" and cleaned
JoinPath(elements) ==
  Clean(Join(SelectSeq(elements, LAMBDA e : Len(e) > 0), <<"/">>))

\* filepath.Glob: the matching files in directory order, none for no match
Glob(pattern, fs) == SelectSeq(fs, LAMBDA f : GlobMatch(pattern, f.path))

\* strings.Count(filename, "/")
directoryDepth(filename) == Cardinality({i \in 1..Len(filename) : filename[i] = "/"})

mdStats == <<"m","d","_","s","t","a","t","s">>

encryptPagePools == <<"e","n","c","r","y","p","t","_","p","a","g","e","_","p","o","o","l","s">>

\* parseStatsFile
parseStatsFile(helpText, promName, file, hasMultipleVals) ==
  IF ~file.readable THEN Result(<<>>, TRUE)
  ELSE IF hasMultipleVals THEN getStatsOperationMetrics(file.content, promName, helpText)
  ELSE getStatsIOMetrics(file.content, promName, helpText)

\* the handler calls of parseFile for the metrics of a stats file
RECURSIVE StatsHandlerCalls(_, _, _)
StatsHandlerCalls(nodeType, nodeName, metricList) ==
  IF Len(metricList) = 0 THEN <<>>
  ELSE <<HandlerCall(nodeType, <<>>, nodeName, Head(metricList).title, Head(metricList).help,
                     Head(metricList).value, Head(metricList).extraLabel,
                     Head(metricList).extraLabelValue)>>
         \o StatsHandlerCalls(nodeType, nodeName, Tail(metricList))

\* the handler calls of parseJobStats for the metrics of a job_stats file
RECURSIVE JobHandlerCalls(_, _, _)
JobHandlerCalls(nodeType, nodeName, metricList) ==
  IF Len(metricList) = 0 THEN <<>>
  ELSE <<HandlerCall(nodeType, <<Head(metricList).jobID>>, nodeName,
                     Head(metricList).metric.title, Head(metricList).metric.help,
                     Head(metricList).metric.value, Head(metricList).metric.extraLabel,
                     Head(metricList).metric.extraLabelValue)>>
         \o JobHandlerCalls(nodeType, nodeName, Tail(metricList))

\* the case single of parseFile: the file holds one number
ParseSingle(nodeType, nodeName, helpText, promName, convertedValue) ==
  IF convertedValue.err THEN Ret(TRUE, <<>>)
  ELSE Ret(FALSE, <<HandlerCall(nodeType, <<>>, nodeName, promName, helpText,
                                convertedValue.val, "", <<>>)>>)

\* the end of parseFile and parseJobStats: the error of the parser is
\* returned, otherwise the handler is called for every metric
HandleMetricList(metricList, calls) ==
  IF metricList.kind = "panic" THEN Panic
  ELSE IF metricList.err THEN Ret(TRUE, <<>>)
  ELSE Ret(FALSE, calls)

\* parseFile after parseFileElements
ParseFileOf(fe, nodeType, metricType, helpText, promName, hasMultipleVals, file, metricList) ==
  IF fe.kind = "panic" THEN Panic
  ELSE IF fe.kind = "error" THEN Ret(TRUE, <<>>)
  ELSE IF metricType = "single"
  THEN IF ~file.readable THEN Ret(TRUE, <<>>)
       ELSE ParseSingle(nodeType, fe.nodeName, helpText, promName,
                        ParseFloat(TrimSpace(file.content)))
  ELSE HandleMetricList(metricList,
                        StatsHandlerCalls(nodeType, fe.nodeName, metricList.metricList))

\* parseFile that returns no error for a text that is no number
ParseFileMutIgnoreBadNumber(nodeType, metricType, path, depth, helpText, promName, hasMultipleVals, file) ==
  LET r == ParseFileOf(parseFileElements(path, depth), nodeType, metricType, helpText,
                       promName, hasMultipleVals, file,
                       parseStatsFile(helpText, promName, file, hasMultipleVals))
  IN IF metricType = "single" /\ file.readable /\ r.kind = "ret" THEN Ret(FALSE, r.sent)
     ELSE r

\* lustreProcFsSource.parseFile: the handler calls and the error
parseFile(nodeType, metricType, path, depth, helpText, promName, hasMultipleVals, file) ==
  ParseFileOf(parseFileElements(path, depth), nodeType, metricType, helpText, promName,
              hasMultipleVals, file,
              parseStatsFile(helpText, promName, file, hasMultipleVals))

\* parseJobStats after parseFileElements
ParseJobStatsOf(fe, nodeType, file, metricList) ==
  IF fe.kind = "panic" THEN Panic
  ELSE IF fe.kind = "error" THEN Ret(TRUE, <<>>)
  ELSE IF ~file.readable THEN Ret(TRUE, <<>>)
  ELSE HandleMetricList(metricList,
                        JobHandlerCalls(nodeType, fe.nodeName, metricList.metricList))

\* lustreProcFsSource.parseJobStats
parseJobStats(nodeType, path, depth, helpText, promName, hasMultipleVals, file) ==
  ParseJobStatsOf(parseFileElements(path, depth), nodeType, file,
                  parseJobStatsText(file.content, promName, helpText, hasMultipleVals))

\* the handler of Update applied to the calls of one parser run
SendResult(metricFunc, keyLabels, r) ==
  IF r.kind = "panic" THEN r
  ELSE Ret(r.err, SendAll(metricFunc, keyLabels, r.sent))

\* the file names that select a parser of their own in parseFile
MetricTypeOf(filename) ==
  IF filename = <<"s","t","a","t","s">> THEN "stats"
  ELSE IF filename = mdStats THEN "md_stats"
  ELSE IF filename = encryptPagePools THEN "encrypt_page_pools"
  ELSE "single"

\* the switch of lustreProcFsSource.Update on metric.filename for one path:
\* what is sent and the error
ProcFsPath(metric, file) ==
  IF metric.filename \in {<<"b","r","w","_","s","t","a","t","s">>, <<"r","p","c","_","s","t","a","t","s">>}
  THEN SendResult(metric.metricFunc, <<"operation", "size">>,
                  parseBRWStats(metric.source, file.path, directoryDepth(metric.filename),
                                metric.helpText, metric.promName, metric.hasMultipleVals, file))
  ELSE IF metric.filename = <<"j","o","b","_","s","t","a","t","s">>
  THEN SendResult(metric.metricFunc, <<"jobid">>,
                  parseJobStats(metric.source, file.path, directoryDepth(metric.filename),
                                metric.helpText, metric.promName, metric.hasMultipleVals, file))
  ELSE SendResult(metric.metricFunc, <<>>,
                  parseFile(metric.source, MetricTypeOf(metric.filename), file.path,
                            directoryDepth(metric.filename), metric.helpText, metric.promName,
                            metric.hasMultipleVals, file))

\* the handler of lustreSysSource.Update for the health status: the help
\* text of the template is attached
RECURSIVE SendHealth(_, _, _)
SendHealth(metricFunc, helpText, sent) ==
  IF Len(sent) = 0 THEN <<>>
  ELSE <<Metric(metricFunc, Head(sent).labels, Head(sent).labelValues, Head(sent).name,
                helpText, Head(sent).value)>>
         \o SendHealth(metricFunc, helpText, Tail(sent))

\* the health status sent for one path
SendHealthResult(metricFunc, helpText, r) ==
  IF r.kind = "panic" THEN r
  ELSE Ret(r.err, SendHealth(metricFunc, helpText, r.sent))

\* the switch of lustreSysSource.Update for one path; lustreSysSource.parseFile
\* is the case single of parseFile
SysFsPath(metric, file) ==
  IF metric.filename = <<"h","e","a","l","t","h","_","c","h","e","c","k">>
  THEN SendHealthResult(metric.metricFunc, metric.helpText,
                        parseTextFile(metric.source, file.path,
                                      directoryDepth(metric.filename), metric.promName, file))
  ELSE SendResult(metric.metricFunc, <<>>,
                  parseFile(metric.source, "single", file.path,
                            directoryDepth(metric.filename), metric.helpText, metric.promName,
                            metric.hasMultipleVals, file))

\* a loop that goes on with the next path and template after an error and
\* returns the error at the end
AndThenMutKeepGoing(r, rest) ==
  IF r.kind = "panic" THEN r
  ELSE IF rest.kind = "panic" THEN rest
  ELSE Ret(r.err \/ rest.err, r.sent \o rest.sent)

\* one step of a loop of Update and the steps after it: an error or a panic
\* returns at once, what was sent before stays sent
AndThen(r, rest) ==
  IF r.kind = "panic" \/ r.err THEN r
  ELSE IF rest.kind = "panic" THEN rest
  ELSE Ret(rest.err, r.sent \o rest.sent)

\* the loop of Update over the paths of one template, from path i on
RECURSIVE UpdatePathsFrom(_, _, _, _)
UpdatePathsFrom(kind, metric, paths, i) ==
  IF i > Len(paths) THEN Ret(FALSE, <<>>)
  ELSE AndThen(IF kind = "procfs" THEN ProcFsPath(metric, paths[i])
               ELSE SysFsPath(metric, paths[i]),
               UpdatePathsFrom(kind, metric, paths, i + 1))

\* the paths of one template: filepath.Glob of the joined pattern
PathsOf(s, metric, fs) ==
  Glob(JoinPath(<<s.basePath, metric.path, metric.filename>>), fs)

\* Update leaving out every template after one whose glob matches nothing
RECURSIVE UpdateFromMutStopAtNoMatch(_, _, _, _)
UpdateFromMutStopAtNoMatch(kind, s, fs, k) ==
  IF k > Len(s.lustreProcMetrics) THEN Ret(FALSE, <<>>)
  ELSE IF Len(PathsOf(s, s.lustreProcMetrics[k], fs)) = 0 THEN Ret(FALSE, <<>>)
  ELSE AndThen(UpdatePathsFrom(kind, s.lustreProcMetrics[k],
                               PathsOf(s, s.lustreProcMetrics[k], fs), 1),
               UpdateFromMutStopAtNoMatch(kind, s, fs, k + 1))

\* the loop of Update over s.lustreProcMetrics from template k on: what the
\* channel receives, in order, and the error returned
RECURSIVE UpdateFrom(_, _, _, _)
UpdateFrom(kind, s, fs, k) ==
  IF k > Len(s.lustreProcMetrics) THEN Ret(FALSE, <<>>)
  ELSE IF Len(PathsOf(s, s.lustreProcMetrics[k], fs)) = 0
  THEN \* paths == nil: continue
       UpdateFrom(kind, s, fs, k + 1)
  ELSE AndThen(UpdatePathsFrom(kind, s.lustreProcMetrics[k],
                               PathsOf(s, s.lustreProcMetrics[k], fs), 1),
               UpdateFrom(kind, s, fs, k + 1))

\* lustreLctlSource.Update: out is what the lctl command (or the file read
\* in its place) gives
LctlUpdate(s, out) ==
  IF Len(s.metricCreator) = 0 THEN Ret(FALSE, <<>>)
  ELSE LET r == createMDTChangelogUsersMetrics(out)
       IN Ret(r.err, r.metricList)

(***************************************************************************)
(* Inputs of Update: sources as the constructors build them and small      *)
(* trees of files in the layouts of the test fixtures                      *)
(***************************************************************************)
MaxFiles == 2

AllDisabled == [f \in DOMAIN AllExtended |-> disabled]

\* the level flags of the sources that are updated
UpdateFlags ==
  {[AllDisabled EXCEPT !.OstEnabled = extended, !.HealthStatusEnabled = core],
   [AllDisabled EXCEPT !.MdtEnabled = extended, !.GenericEnabled = extended,
                       !.MgsEnabled = core, !.HealthStatusEnabled = extended],
   [AllDisabled EXCEPT !.ClientEnabled = core]}

FixtureStats ==
  RenderStatsFile([kind |-> "stats",
                   lines |-> IOLines(<<1, 2, 3, 4>>, <<5, 6, 7, 8>>)
                               \o <<Line(<<"c","o","n","n","e","c","t">>, <<0>>, Reqs),
                                    Line(<<"p","i","n","g">>, <<3>>, Reqs)>>])

FixtureJobStats ==
  RenderJobFile(JobFile(TRUE,
    <<JobBlock(TRUE, <<" ">>, JobIdA, <<>>,
               IOLines(<<1, 2, 3, 4>>, <<5, 6, 7, 8>>) \o <<Line(JobOperations[1], <<1>>, Reqs)>>,
               Compact)>>, "newline"))

FixtureBRWStats(title, other) ==
  RenderBRWFile([title |-> title, other |-> other, first |-> TRUE,
                 rows |-> [k \in 1..Len(BRWSizeDomain) |->
                             [form |-> "dual", read |-> 7, write |-> 0]]])

\* the files a tree can hold, in the order of a directory walk: the catalog
\* path and file name a file belongs to, its path, and its content
Fixtures ==
  <<[group |-> <<"m","d","c","/","*">>, name |-> <<"r","p","c","_","s","t","a","t","s">>, single |-> FALSE,
     path |-> <<"/","p","r","o","c","/","f","s","/","l","u","s","t","r","e","/","m","d","c","/","l","u","s","t","r","e","-","M","D","T","0","0","0","0","-","m","d","c","-","f","f","f","f","8","8","0","3","/","r","p","c","_","s","t","a","t","s">>,
     content |-> FixtureBRWStats(<<"r","p","c","s"," ","i","n"," ","f","l","i","g","h","t">>, <<"o","f","f","s","e","t">>)],
    [group |-> <<"m","d","t","/","*">>, name |-> mdStats, single |-> FALSE,
     path |-> <<"/","p","r","o","c","/","f","s","/","l","u","s","t","r","e","/","m","d","t","/","l","u","s","t","r","e","-","M","D","T","0","0","0","0","/","m","d","_","s","t","a","t","s">>,
     content |-> FixtureStats],
    [group |-> <<"o","b","d","f","i","l","t","e","r","/","*","-","O","S","T","*">>, name |-> <<"j","o","b","_","s","t","a","t","s">>, single |-> FALSE,
     path |-> <<"/","p","r","o","c","/","f","s","/","l","u","s","t","r","e","/","o","b","d","f","i","l","t","e","r","/","l","u","s","t","r","e","-","O","S","T","0","0","0","0","/","j","o","b","_","s","t","a","t","s">>,
     content |-> FixtureJobStats],
    [group |-> <<"o","b","d","f","i","l","t","e","r","/","*","-","O","S","T","*">>, name |-> <<"n","u","m","_","e","x","p","o","r","t","s">>, single |-> TRUE,
     path |-> <<"/","p","r","o","c","/","f","s","/","l","u","s","t","r","e","/","o","b","d","f","i","l","t","e","r","/","l","u","s","t","r","e","-","O","S","T","0","0","0","0","/","n","u","m","_","e","x","p","o","r","t","s">>,
     content |-> <<"2", "\n">>],
    [group |-> <<"o","b","d","f","i","l","t","e","r","/","*","-","O","S","T","*">>, name |-> <<"s","t","a","t","s">>, single |-> FALSE,
     path |-> <<"/","p","r","o","c","/","f","s","/","l","u","s","t","r","e","/","o","b","d","f","i","l","t","e","r","/","l","u","s","t","r","e","-","O","S","T","0","0","0","0","/","s","t","a","t","s">>,
     content |-> FixtureStats],
    [group |-> <<"o","b","d","f","i","l","t","e","r","/","*","-","O","S","T","*">>, name |-> <<"n","u","m","_","e","x","p","o","r","t","s">>, single |-> TRUE,
     path |-> <<"/","p","r","o","c","/","f","s","/","l","u","s","t","r","e","/","o","b","d","f","i","l","t","e","r","/","l","u","s","t","r","e","-","O","S","T","0","0","0","1","/","n","u","m","_","e","x","p","o","r","t","s">>,
     content |-> <<"3", "\n">>],
    [group |-> <<"o","s","d","-","*","/","*","-","O","S","T","*">>, name |-> <<"b","r","w","_","s","t","a","t","s">>, single |-> FALSE,
     path |-> <<"/","p","r","o","c","/","f","s","/","l","u","s","t","r","e","/","o","s","d","-","l","d","i","s","k","f","s","/","l","u","s","t","r","e","-","O","S","T","0","0","0","0","/","b","r","w","_","s","t","a","t","s">>,
     content |-> FixtureBRWStats(<<"p","a","g","e","s"," ","p","e","r"," ","b","u","l","k"," ","r","/","w">>, <<"I","/","O"," ","t","i","m","e">>)],
    [group |-> <<"s","p","t","l","r","p","c">>, name |-> encryptPagePools, single |-> FALSE,
     path |-> <<"/","p","r","o","c","/","f","s","/","l","u","s","t","r","e","/","s","p","t","l","r","p","c","/","e","n","c","r","y","p","t","_","p","a","g","e","_","p","o","o","l","s">>,
     content |-> RenderStatsFile([kind |-> "pools",
                                  lines |-> [i \in 1..Len(PoolVocabulary) |->
                                               Line(PoolVocabulary[i], <<i + 8>>, <<>>)]])],
    [group |-> <<>>, name |-> <<"h","e","a","l","t","h","_","c","h","e","c","k">>, single |-> FALSE,
     path |-> <<"/","s","y","s","/","f","s","/","l","u","s","t","r","e","/","h","e","a","l","t","h","_","c","h","e","c","k">>,
     content |-> <<"h","e","a","l","t","h","y">> \o <<"\n">>],
    [group |-> <<"l","d","l","m","/","n","a","m","e","s","p","a","c","e","s","/","f","i","l","t","e","r","-","*">>, name |-> <<"p","o","o","l","/","g","r","a","n","t","e","d">>, single |-> TRUE,
     path |-> <<"/","s","y","s","/","f","s","/","l","u","s","t","r","e","/","l","d","l","m","/","n","a","m","e","s","p","a","c","e","s","/","f","i","l","t","e","r","-","l","u","s","t","r","e","-","O","S","T","0","0","0","0","_","U","U","I","D","/","p","o","o","l","/","g","r","a","n","t","e","d">>,
     content |-> <<"5", "\n">>],
    [group |-> <<"o","b","d","f","i","l","t","e","r","/","*","-","O","S","T","*">>, name |-> <<"d","e","g","r","a","d","e","d">>, single |-> TRUE,
     path |-> <<"/","s","y","s","/","f","s","/","l","u","s","t","r","e","/","o","b","d","f","i","l","t","e","r","/","l","u","s","t","r","e","-","O","S","T","0","0","0","0","/","d","e","g","r","a","d","e","d">>,
     content |-> <<"0", "\n">>]>>

\* a file as the program finds it: in good state, or broken (a scalar file
\* with a text that is no number, any other file unreadable)
FileOf(fixture, state) ==
  [path |-> fixture.path, group |-> fixture.group, name |-> fixture.name,
   state |-> state,
   readable |-> state = "good" \/ fixture.single,
   content |-> IF state = "good" THEN fixture.content
               ELSE IF fixture.single THEN <<"x", "\n">> ELSE <<>>]

\* the trees of at most MaxFiles files below a location, at most one of the
\* files broken
Trees(location) ==
  LET below == {i \in DOMAIN Fixtures : HasPrefix(Fixtures[i].path, location)}
  IN {LET present == SortedSeq({i \in below : st[i] # "absent"})
      IN [k \in 1..Len(present) |-> FileOf(Fixtures[present[k]], st[present[k]])] :
        st \in {x \in [below -> {"absent", "good", "broken"}] :
                  /\ Cardinality({i \in below : x[i] # "absent"}) <= MaxFiles
                  /\ Cardinality({i \in below : x[i] = "broken"}) <= 1}}

\* what the lctl command gives
LctlOutputs ==
  {[kind |-> "error"], [kind |-> "nopath"]}
  \cup {[kind |-> "data", data |-> RenderChangelog(c)] :
          c \in {x \in Changelogs : x.target.present /\ Len(x.readers) <= 1}}

InitUpdate ==
  /\ pc = "call"
  /\ input \in
       UNION {{[fn |-> "Update", kind |-> "procfs", source |-> s, fs |-> fs] :
                 s \in newLustreProcFsSource(f), fs \in Trees(ProcLocation)}
              \cup {[fn |-> "Update", kind |-> "sysfs", source |-> s, fs |-> fs] :
                      s \in newLustreSysSource(f), fs \in Trees(SysLocation)} : f \in UpdateFlags}
       \cup {[fn |-> "Update", kind |-> "lctl",
              source |-> newLustreLctlSource(f, [LctlCommandMode |-> TRUE, lctl |-> TRUE,
                                                 user |-> TRUE, root |-> TRUE, sudo |-> TRUE]),
              out |-> out] : f \in UpdateFlags, out \in LctlOutputs}
  /\ output = None

ProcFsUpdate ==
  /\ pc = "call"
  /\ input.fn = "Update" /\ input.kind = "procfs"
  /\ output' = [call |-> "Update", ret |-> UpdateFrom("procfs", input.source, input.fs, 1)]
  /\ pc' = "done"
  /\ UNCHANGED input

SysFsUpdate ==
  /\ pc = "call"
  /\ input.fn = "Update" /\ input.kind = "sysfs"
  /\ output' = [call |-> "Update", ret |-> UpdateFrom("sysfs", input.source, input.fs, 1)]
  /\ pc' = "done"
  /\ UNCHANGED input

LctlSourceUpdate ==
  /\ pc = "call"
  /\ input.fn = "Update" /\ input.kind = "lctl"
  /\ output' = [call |-> "Update", ret |-> LctlUpdate(input.source, input.out)]
  /\ pc' = "done"
  /\ UNCHANGED input

NextUpdate ==
  \/ ProcFsUpdate
  \/ SysFsUpdate
  \/ LctlSourceUpdate

SpecUpdate == InitUpdate /\ [][NextUpdate]_vars

(***************************************************************************)
(* Claims about Update                                                     *)
(***************************************************************************)
\* the files of a tree that belong to a template: those below its catalog
\* path that carry its file name
MatchedFiles(t, fs) == SelectSeq(fs, LAMBDA f : f.group = t.path /\ f.name = t.filename)

HasMatch(t, fs) == Len(MatchedFiles(t, fs)) > 0

\* a source with the templates that have no file in the tree left out
WithoutUnmatched(s, fs) ==
  [s EXCEPT !.lustreProcMetrics = SelectSeq(s.lustreProcMetrics, LAMBDA t : HasMatch(t, fs))]

UpdateDone == pc = "done" /\ output.call = "Update" /\ input.kind \in {"procfs", "sysfs"}

\* C14: a template whose pattern matches no path is skipped silently: it adds
\* no observation and no error (the pass gives what the pass of the source
\* without such templates gives, and nothing and no error when no template
\* matches), and the templates after it are still processed (when the pass
\* ends without error, what every matched template gives has been sent)
C14_ZeroMatchSkipped ==
  UpdateDone =>
    LET s == input.source
        fs == input.fs
        ret == output.ret
    IN /\ ret = UpdateFrom(input.kind, WithoutUnmatched(s, fs), fs, 1)
       /\ (\A k \in DOMAIN s.lustreProcMetrics : ~HasMatch(s.lustreProcMetrics[k], fs))
            => ret = Ret(FALSE, <<>>)
       /\ (ret.kind = "ret" /\ ~ret.err)
            => \A k \in DOMAIN s.lustreProcMetrics :
                 Range(UpdatePathsFrom(input.kind, s.lustreProcMetrics[k],
                                       MatchedFiles(s.lustreProcMetrics[k], fs), 1).sent)
                   \subseteq Range(ret.sent)

\* a pass without error in which a template without a file comes before a
\* template whose observations are sent
C14_Witness ==
  /\ UpdateDone
  /\ output.ret.kind = "ret" /\ ~output.ret.err
  /\ \E k1, k2 \in DOMAIN input.source.lustreProcMetrics :
       /\ k1 < k2
       /\ ~HasMatch(input.source.lustreProcMetrics[k1], input.fs)
       /\ HasMatch(input.source.lustreProcMetrics[k2], input.fs)
       /\ \E m \in Range(output.ret.sent) :
            m \in Range(UpdatePathsFrom(input.kind, input.source.lustreProcMetrics[k2],
                                        MatchedFiles(input.source.lustreProcMetrics[k2],
                                                     input.fs), 1).sent)

\* what a pass has sent to the channel, whatever it returned
SentByUpdate ==
  IF pc = "done" /\ output.call = "Update" /\ output.ret.kind = "ret"
  THEN Range(output.ret.sent) ELSE {}

\* the label names a template declares: component and target, the keys of
\* its file format, and the extra label of a template with several values
DeclaredLabels(t) ==
  <<"component", "target">>
    \o (IF t.filename \in {<<"b","r","w","_","s","t","a","t","s">>, <<"r","p","c","_","s","t","a","t","s">>}
        THEN <<"operation", "size">>
        ELSE IF t.filename = <<"j","o","b","_","s","t","a","t","s">> THEN <<"jobid">>
        ELSE <<>>)
    \o (IF ~t.hasMultipleVals THEN <<>>
        ELSE IF t.filename \in {<<"b","r","w","_","s","t","a","t","s">>, <<"r","p","c","_","s","t","a","t","s">>}
        THEN <<"type">> ELSE <<"operation">>)

\* the label names of the observations of the changelog creator
ChangelogLabels(name) ==
  IF name = "changelog_current_index" THEN <<"component", "target">>
  ELSE <<"component", "target", "id">>

\* the label names declared for an observation: those of every template of
\* its source that exports its name
LabelListsOf(m) ==
  IF input.kind = "lctl" THEN {ChangelogLabels(m.name)}
  ELSE {DeclaredLabels(t) : t \in {x \in Range(input.source.lustreProcMetrics) :
                                     x.promName = m.name}}

\* C15: every observation sent by a source has as many label values as label
\* names, in the order of the names (the first value is the component of the
\* source's template or creator), no label name twice, component and target
\* first; and its label names are the list its template declares, which
\* depends on the template alone and not on the path, the row or the pass
C15_LabelListsAgree ==
  \A m \in SentByUpdate :
    /\ Len(m.labels) = Len(m.labelValues)
    /\ \A i, j \in DOMAIN m.labels : m.labels[i] = m.labels[j] => i = j
    /\ Len(m.labels) >= 2 /\ m.labels[1] = "component" /\ m.labels[2] = "target"
    /\ m.labelValues[1] \in (IF input.kind = "lctl" THEN {"mdt"}
                             ELSE {t.source : t \in Range(input.source.lustreProcMetrics)})
    /\ LabelListsOf(m) = {m.labels}
    /\ \A n \in SentByUpdate : n.name = m.name => n.labels = m.labels

\* a pass that sent observations of one template from the files of two
\* targets
C15_Witness ==
  \E m, n \in SentByUpdate :
    /\ m.name = n.name
    /\ m.labelValues[2] # n.labelValues[2]
    /\ m.labels = n.labels

(***************************************************************************)
(* Passes: a source is built once and updated in every scrape; between two *)
(* scrapes the files, or what lctl prints, may change                      *)
(***************************************************************************)
MaxPasses == 2

\* Update of a source of any kind over what it reads
SourceUpdate(kind, s, env) ==
  IF kind = "lctl" THEN LctlUpdate(s, env) ELSE UpdateFrom(kind, s, env, 1)

\* a source that forgets its templates when a pass fails
SourceAfterUpdateMutForget(s, ret) ==
  IF ret.kind = "ret" /\ ret.err
  THEN [f \in DOMAIN s |-> IF f = "basePath" THEN s[f] ELSE <<>>]
  ELSE s

\* the source after Update: the three Update methods read the fields of
\* their receiver and assign none
SourceAfterUpdate(s, ret) == s

\* the level flags of the sources that are updated repeatedly
PassFlags ==
  [AllDisabled EXCEPT !.OstEnabled = core, !.HealthStatusEnabled = core]

PassLctlFlags == [AllDisabled EXCEPT !.MdtEnabled = extended]

\* the files that come and go between the passes
PassFiles ==
  {<<"/","p","r","o","c","/","f","s","/","l","u","s","t","r","e","/","o","b","d","f","i","l","t","e","r","/","l","u","s","t","r","e","-","O","S","T","0","0","0","0","/","n","u","m","_","e","x","p","o","r","t","s">>,
   <<"/","p","r","o","c","/","f","s","/","l","u","s","t","r","e","/","o","b","d","f","i","l","t","e","r","/","l","u","s","t","r","e","-","O","S","T","0","0","0","1","/","n","u","m","_","e","x","p","o","r","t","s">>,
   <<"/","s","y","s","/","f","s","/","l","u","s","t","r","e","/","h","e","a","l","t","h","_","c","h","e","c","k">>}

PassProcTrees ==
  {t \in Trees(ProcLocation) : \A i \in DOMAIN t : t[i].path \in PassFiles}

PassSysTrees ==
  {t \in Trees(SysLocation) : \A i \in DOMAIN t : t[i].path \in PassFiles}

\* what lctl prints in a pass
PassOutputs ==
  {[kind |-> "error"], [kind |-> "nopath"]}
  \cup {[kind |-> "data", data |-> RenderChangelog(c)] :
          c \in {x \in Changelogs :
                   /\ x.target = [present |-> TRUE,
                                  name |-> <<"l","u","s","t","r","e","-","M","D","T","0","0","0","0">>]
                   /\ x.index \in {[present |-> TRUE, n |-> 34], [present |-> FALSE, n |-> 0]}
                   /\ x.readers = <<[id |-> <<"c","l","1">>, index |-> 0, idle |-> 1725676]>>}}

\* what a source of a kind may find in a pass
Environments(kind) ==
  IF kind = "procfs" THEN PassProcTrees
  ELSE IF kind = "sysfs" THEN PassSysTrees
  ELSE PassOutputs

InitPasses ==
  /\ pc = "call"
  /\ \E kind \in {"procfs", "sysfs", "lctl"} :
       \E s \in (IF kind = "procfs" THEN newLustreProcFsSource(PassFlags)
                 ELSE IF kind = "sysfs" THEN newLustreSysSource(PassFlags)
                 ELSE {newLustreLctlSource(PassLctlFlags,
                                           [LctlCommandMode |-> TRUE, lctl |-> TRUE,
                                            user |-> TRUE, root |-> TRUE, sudo |-> TRUE])}) :
         \E env \in Environments(kind) :
           /\ input = [fn |-> "Passes", kind |-> kind, source |-> s, env |-> env]
           /\ output = [call |-> "Passes", built |-> s, passes |-> <<>>]

\* one scrape: Update of the source over what it finds
UpdatePass ==
  /\ pc = "call"
  /\ input.fn = "Passes"
  /\ Len(output.passes) < MaxPasses
  /\ output' = [output EXCEPT
                  !.passes = Append(@, [env |-> input.env,
                                        ret |-> SourceUpdate(input.kind, input.source,
                                                             input.env)])]
  /\ input' = [input EXCEPT
                 !.source = SourceAfterUpdate(@, output'.passes[Len(output'.passes)].ret)]
  /\ pc' = "done"

\* between two scrapes the files change, or stay
ChangeEnvironment ==
  /\ pc = "done"
  /\ input.fn = "Passes"
  /\ Len(output.passes) < MaxPasses
  /\ \E env \in Environments(input.kind) : input' = [input EXCEPT !.env = env]
  /\ pc' = "call"
  /\ UNCHANGED output

NextPasses ==
  \/ UpdatePass
  \/ ChangeEnvironment

SpecPasses == InitPasses /\ [][NextPasses]_vars

\* how often an observation is in what a pass sent
TimesSent(m, sent) == Cardinality({i \in DOMAIN sent : sent[i] = m})

\* two passes sent the same multiset of observations and ended alike
SameOutcome(r1, r2) ==
  /\ r1.kind = r2.kind
  /\ r1.kind = "ret" =>
       /\ r1.err = r2.err
       /\ \A m \in Range(r1.sent) \cup Range(r2.sent) :
            TimesSent(m, r1.sent) = TimesSent(m, r2.sent)

\* a pass has just ended
PassDone == pc = "done" /\ input.fn = "Passes" /\ output.call = "Passes"

MaxSends == 1

\* the names of sources.Factories
SourceNames == {"procfs", "sysfs", "lctl"}

\* how Update of a source goes in a pass: it sends nothing or MaxSends
\* observations and then returns nil, returns an error, panics, or is stuck
\* in a file read or in the external command and never returns
UpdateOutcomes ==
  {[sends |-> n, end |-> e] : n \in {0, MaxSends}, e \in {"nil", "error", "panic", "stuck"}}

\* the number of writes the reader of the channel accepts before it stops
\* receiving; the last limit is never reached
SinkLimits == {0, 1, Cardinality(SourceNames) * MaxSends + 1}

\* l.sourceList with the outcome of each source's Update in the pass
SourceLists ==
  UNION {[names -> UpdateOutcomes] : names \in (SUBSET SourceNames) \ {{}}}

InitCollect ==
  /\ pc = [main |-> "add", worker |-> [name \in SourceNames |-> "none"]]
  /\ input \in {[fn |-> "Collect", sourceList |-> l, sinkLimit |-> k] :
                  l \in SourceLists, k \in SinkLimits}
  /\ output = [call |-> "Collect", wg |-> 0, ch |-> <<>>, observed |-> <<>>,
               sent |-> [name \in SourceNames |-> 0]]

Collecting == input.fn = "Collect" /\ pc.main # "crashed"

\* a send on ch proceeds when the reader of the channel receives
SinkAccepts == Len(output.ch) < input.sinkLimit

\* wg.Add(len(l.sourceList))
CollectAdd ==
  /\ Collecting
  /\ pc.main = "add"
  /\ output' = [output EXCEPT !.wg = Cardinality(DOMAIN input.sourceList)]
  /\ pc' = [pc EXCEPT !.main = "spawn"]
  /\ UNCHANGED input

\* a loop that calls collectFromSource in place: a worker starts when the
\* worker before it has ended
CollectSpawnMutSequential(name) ==
  /\ Collecting
  /\ pc.main = "spawn"
  /\ name \in DOMAIN input.sourceList
  /\ pc.worker[name] = "none"
  /\ \A other \in DOMAIN input.sourceList : pc.worker[other] \in {"none", "finished"}
  /\ pc' = [pc EXCEPT !.worker[name] = "update",
                      !.main = IF \A other \in DOMAIN input.sourceList \ {name} :
                                    pc.worker[other] # "none"
                               THEN "wait" ELSE "spawn"]
  /\ UNCHANGED <<input, output>>

\* one round of the loop over l.sourceList, in the order of the map: the go
\* statement; after the last round the caller is at wg.Wait()
CollectSpawn(name) ==
  /\ Collecting
  /\ pc.main = "spawn"
  /\ name \in DOMAIN input.sourceList
  /\ pc.worker[name] = "none"
  /\ pc' = [pc EXCEPT !.worker[name] = "update",
                      !.main = IF \A other \in DOMAIN input.sourceList \ {name} :
                                    pc.worker[other] # "none"
                               THEN "wait" ELSE "spawn"]
  /\ UNCHANGED <<input, output>>

\* Update sends an observation to the channel
WorkerSend(name) ==
  /\ Collecting
  /\ pc.worker[name] = "update"
  /\ output.sent[name] < input.sourceList[name].sends
  /\ SinkAccepts
  /\ output' = [output EXCEPT !.ch = Append(@, [source |-> name, kind |-> "observation"]),
                              !.sent[name] = @ + 1]
  /\ UNCHANGED <<pc, input>>

\* Update returns nil or an error
WorkerUpdateReturn(name) ==
  /\ Collecting
  /\ pc.worker[name] = "update"
  /\ output.sent[name] = input.sourceList[name].sends
  /\ input.sourceList[name].end \in {"nil", "error"}
  /\ pc' = [pc EXCEPT !.worker[name] = "observe"]
  /\ UNCHANGED <<input, output>>

\* Update panics: no goroutine recovers, the process ends
WorkerPanic(name) ==
  /\ Collecting
  /\ pc.worker[name] = "update"
  /\ output.sent[name] = input.sourceList[name].sends
  /\ input.sourceList[name].end = "panic"
  /\ pc' = [pc EXCEPT !.main = "crashed"]
  /\ UNCHANGED <<input, output>>

\* collectFromSource that records every pass as a success
WorkerObserveMutSuccess(name) ==
  /\ Collecting
  /\ pc.worker[name] = "observe"
  /\ output' = [output EXCEPT
                  !.observed = Append(@, [source |-> name, result |-> "success"])]
  /\ pc' = [pc EXCEPT !.worker[name] = "done"]
  /\ UNCHANGED input

\* collectFromSource after Update: the result is "error" when err != nil,
\* and the duration is observed under the source's name and the result
WorkerObserve(name) ==
  /\ Collecting
  /\ pc.worker[name] = "observe"
  /\ output' = [output EXCEPT
                  !.observed = Append(@, [source |-> name,
                                          result |-> IF input.sourceList[name].end = "error"
                                                     THEN "error" ELSE "success"])]
  /\ pc' = [pc EXCEPT !.worker[name] = "done"]
  /\ UNCHANGED input

\* wg.Done()
WorkerDone(name) ==
  /\ Collecting
  /\ pc.worker[name] = "done"
  /\ output' = [output EXCEPT !.wg = @ - 1]
  /\ pc' = [pc EXCEPT !.worker[name] = "finished"]
  /\ UNCHANGED input

\* Collect that does not wait for its workers
CollectWaitMutNoWait ==
  /\ Collecting
  /\ pc.main = "wait"
  /\ pc' = [pc EXCEPT !.main = "durations"]
  /\ UNCHANGED <<input, output>>

\* wg.Wait() returns when the counter is zero
CollectWait ==
  /\ Collecting
  /\ pc.main = "wait"
  /\ output.wg = 0
  /\ pc' = [pc EXCEPT !.main = "durations"]
  /\ UNCHANGED <<input, output>>

\* scrapeDurations.Collect(ch): the summaries of the label pairs observed,
\* and Collect returns
CollectDurations ==
  /\ Collecting
  /\ pc.main = "durations"
  /\ SinkAccepts
  /\ output' = [output EXCEPT !.ch = Append(@, [source |-> "scrapeDurations",
                                                 kind |-> "summary"])]
  /\ pc' = [pc EXCEPT !.main = "returned"]
  /\ UNCHANGED input

NextCollect ==
  \/ CollectAdd
  \/ \E name \in SourceNames : CollectSpawn(name)
  \/ \E name \in SourceNames : WorkerSend(name)
  \/ \E name \in SourceNames : WorkerUpdateReturn(name)
  \/ \E name \in SourceNames : WorkerPanic(name)
  \/ \E name \in SourceNames : WorkerObserve(name)
  \/ \E name \in SourceNames : WorkerDone(name)
  \/ CollectWait
  \/ CollectDurations

SpecCollect == InitCollect /\ [][NextCollect]_vars

\* the Go scheduler runs every goroutine that can take a step, and the
\* registry receives what is sent to the channel
SpecCollectFair == SpecCollect /\ WF_vars(NextCollect)

\* the observations of the scrape duration recorded for a source
Recorded(name) == {i \in DOMAIN output.observed : output.observed[i].source = name}

\* the worker of a source has ended: Update has sent what it sends and has
\* returned, the duration is recorded, and wg.Done() is called
WorkerFinished(name) ==
  /\ pc.worker[name] = "finished"
  /\ output.sent[name] = input.sourceList[name].sends
  /\ Recorded(name) # {}

\* C16: Collect starts a worker for every registered source and for no other,
\* collects the scrape durations and returns only after every worker has
\* finished its Update and recorded its duration, and nothing is sent or
\* recorded any more once Collect has returned
C16_CollectWaits ==
  /\ [](input.fn = "Collect" =>
          /\ \A name \in SourceNames \ DOMAIN input.sourceList : pc.worker[name] = "none"
          /\ pc.main \in {"wait", "durations", "returned"} =>
               \A name \in DOMAIN input.sourceList : pc.worker[name] # "none"
          /\ pc.main \in {"durations", "returned"} =>
               \A name \in DOMAIN input.sourceList : WorkerFinished(name))
  /\ [][(input.fn = "Collect" /\ pc.main = "returned") => output' = output]_vars

\* Collect has returned from a pass in which two sources sent observations,
\* the summaries come last on the channel
C16_Witness ==
  /\ input.fn = "Collect"
  /\ pc.main = "returned"
  /\ \E a, b \in DOMAIN input.sourceList :
       /\ a # b
       /\ \E i, j \in DOMAIN output.ch :
            /\ i < j
            /\ output.ch[i] = [source |-> b, kind |-> "observation"]
            /\ output.ch[j] = [source |-> a, kind |-> "observation"]
  /\ output.ch[Len(output.ch)].kind = "summary"

\* every Update of the pass returns, and the channel is read to the end
AllUpdatesReturn ==
  /\ \A name \in DOMAIN input.sourceList : input.sourceList[name].end \in {"nil", "error"}
  /\ input.sinkLimit = Cardinality(SourceNames) * MaxSends + 1

\* C17: no source ever records more than one scrape duration in a pass; when
\* the pass is complete every source has recorded exactly one, with the
\* result "error" if and only if its Update returned an error, and every
\* Update has run to its end whatever the other sources returned; and a pass
\* in which every Update returns, with an error or without, does complete
C17_ErrorsIsolated ==
  /\ [](input.fn = "Collect" =>
          /\ \A name \in SourceNames : Cardinality(Recorded(name)) <= 1
          /\ pc.main = "returned" =>
               \A name \in DOMAIN input.sourceList :
                 /\ output.sent[name] = input.sourceList[name].sends
                 /\ \E i \in Recorded(name) :
                      output.observed[i].result =
                        (IF input.sourceList[name].end = "error" THEN "error"
                         ELSE "success"))
  /\ (input.fn = "Collect" /\ AllUpdatesReturn) => <>(pc.main = "returned")

\* a complete pass in which the Update of one source returned an error and
\* was recorded first, and another source sent its observations and was
\* recorded as a success after it
C17_Witness ==
  /\ input.fn = "Collect"
  /\ pc.main = "returned"
  /\ \E a, b \in DOMAIN input.sourceList :
       /\ input.sourceList[a].end = "error"
       /\ input.sourceList[b].end = "nil" /\ input.sourceList[b].sends > 0
       /\ output.sent[b] = input.sourceList[b].sends
       /\ \E i, j \in DOMAIN output.observed :
            /\ i < j
            /\ output.observed[i] = [source |-> a, result |-> "error"]
            /\ output.observed[j] = [source |-> b, result |-> "success"]

(***************************************************************************)
(* Claims about the lookup of the catalog operations                       *)
(***************************************************************************)
\* C20: every operation observed by getJobStatsOperationMetrics has a line
\* of the block that begins with exactly its name: an operation without
\* such a line yields no observation, also when the name of another line
\* ends with it
C20_OperationLineBeginsWithName ==
  (pc = "done" /\ input.fn = "jobBlock" /\ output.call = "getJobStatsOperationMetrics"
     /\ output.ret.kind = "ret")
  => \A i \in DOMAIN output.ret.metricList :
       LinesNamed(input.block, output.ret.metricList[i].metric.extraLabelValue) # <<>>

(***************************************************************************)
(* Claims about the size label of histogram buckets (checked under         *)
(* SpecBRWFile)                                                            *)
(***************************************************************************)
\* the help texts of the sections whose rows count pages, requests or
\* discontinuities and not bytes
CountOrientedHelp ==
  {"pagesPerBlockRWHelp", "discontiguousPagesHelp", "diskIOsInFlightHelp",
   "pagesPerRPCHelp", "rpcsInFlightHelp"}

\* the labels of the rows of the requested section as the text has them, the
\* colon stripped, once per bucket of the row
RawSizesInText(layout) ==
  Concat([k \in 1..Len(BRWSizeDomain) |->
    IF layout.rows[k].form = "dual" THEN <<BRWSizeDomain[k], BRWSizeDomain[k]>>
    ELSE IF layout.rows[k].form = "single" THEN <<BRWSizeDomain[k]>>
    ELSE <<>>])

SizesSent(sent) == [i \in 1..Len(sent) |-> sent[i].labelValues[4]]

\* C21: for a histogram template of a count-oriented section the size label
\* of every bucket sent is the raw label of its row with only the colon
\* stripped, also for a raw label that ends in K, M or G
C21_CountLabelsRaw ==
  (pc = "done" /\ input.fn = "brwFile" /\ SectionRequested
     /\ input.metric.helpText \in CountOrientedHelp)
  => /\ output.ret.kind = "ret"
     /\ SizesSent(output.ret.sent) = RawSizesInText(input.layout)

(***************************************************************************)
(* Claims about the order of the observations of a pass (checked under     *)
(* SpecUpdate)                                                             *)
(***************************************************************************)
\* the sources the constructors can return under each choice of levels
ProcSourcesBuilt == [f \in UpdateFlags |-> newLustreProcFsSource(f)]

SysSourcesBuilt == [f \in UpdateFlags |-> newLustreSysSource(f)]

SourcesBuiltLike(kind, s) ==
  UNION {IF kind = "procfs" /\ s \in ProcSourcesBuilt[f] THEN ProcSourcesBuilt[f]
         ELSE IF kind = "sysfs" /\ s \in SysSourcesBuilt[f] THEN SysSourcesBuilt[f]
         ELSE {} : f \in UpdateFlags}

\* C22: the observations of a pass are sent in an order that the enable
\* levels and the files determine: every source instance built from the same
\* levels sends the same sequence of observations for the same files
C22_SameOrderEveryInstance ==
  (pc = "done" /\ input.fn = "Update" /\ input.kind \in {"procfs", "sysfs"}
     /\ output.ret.kind = "ret")
  => \A s \in SourcesBuiltLike(input.kind, input.source) :
       UpdateFrom(input.kind, s, input.fs, 1) = output.ret

\* a pass over an obdfilter num_exports file and an osd brw_stats file, both
\* in good state
TwoGroupsPass ==
  /\ pc = "done" /\ input.fn = "Update" /\ input.kind = "procfs"
  /\ Len(input.fs) = 2
  /\ input.fs[1].name = <<"n","u","m","_","e","x","p","o","r","t","s">> /\ input.fs[1].state = "good"
  /\ input.fs[2].name = <<"b","r","w","_","s","t","a","t","s">> /\ input.fs[2].state = "good"
  /\ output.ret.kind = "ret" /\ ~output.ret.err
  /\ Len(output.ret.sent) > 1

\* the two orders in which the instances send the observations of that pass
C22_ScalarFirst == TwoGroupsPass /\ Len(output.ret.sent[1].labelValues) = 2

C22_HistogramFirst == TwoGroupsPass /\ Len(output.ret.sent[1].labelValues) = 4

(***************************************************************************)
(* Claims about the type label of histogram buckets (checked under         *)
(* SpecBRWFile)                                                            *)
(***************************************************************************)
\* the segment of the path two levels above the file
TypeSegment(path) == Split(path, "/")[Len(Split(path, "/")) - 2]

\* C23: every bucket of a histogram template with hasMultipleVals carries the
\* labels (component, target, operation, size, type), the value of type being
\* the path segment two levels above the file; every bucket of a histogram
\* template without hasMultipleVals carries exactly the labels (component,
\* target, operation, size)
C23_TypeLabel ==
  (pc = "done" /\ input.fn = "brwFile")
  => /\ output.ret.kind = "ret"
     /\ \A i \in 1..Len(output.ret.sent) :
          LET m == output.ret.sent[i]
          IN IF input.metric.hasMultipleVals
             THEN /\ m.labels = <<"component", "target", "operation", "size", "type">>
                  /\ Len(m.labelValues) = 5
                  /\ m.labelValues[5] = TypeSegment(input.path)
                  /\ m.labelValues[5] \in {<<"m","d","c">>, <<"o","s","c">>}
             ELSE /\ m.labels = <<"component", "target", "operation", "size">>
                  /\ Len(m.labelValues) = 4

C23_Witness ==
  /\ pc = "done" /\ input.fn = "brwFile" /\ SectionRequested
  /\ input.metric.hasMultipleVals
  /\ input.metric.path = <<"m","d","c","/","*">>
  /\ Len(output.ret.sent) = 4
  /\ \A i \in 1..4 : output.ret.sent[i].labelValues[5] = <<"m","d","c">>

\* buckets of a histogram template without hasMultipleVals
C23_WitnessPlain ==
  /\ pc = "done" /\ input.fn = "brwFile" /\ SectionRequested
  /\ ~input.metric.hasMultipleVals
  /\ Len(output.ret.sent) = 4
  /\ Len(output.ret.sent[1].labels) = 4

(***************************************************************************)
(* Update over one single-value file: the sources of an object storage     *)
(* server and a file with a chosen text, readable or not                   *)
(***************************************************************************)
\* texts of a single-value file with the number they hold, if any
SingleTexts ==
  {[content |-> <<"2", "\n">>, valid |-> TRUE, number |-> 2],
   [content |-> <<" ", "3", "5", " ", "\n">>, valid |-> TRUE, number |-> 35],
   [content |-> <<"\t", "7", "\n", "\n">>, valid |-> TRUE, number |-> 7],
   [content |-> <<"0", "\n">>, valid |-> TRUE, number |-> 0],
   [content |-> <<"9">>, valid |-> TRUE, number |-> 9],
   [content |-> <<"x", "\n">>, valid |-> FALSE, number |-> 0],
   [content |-> <<"1", " ", "2", "\n">>, valid |-> FALSE, number |-> 0],
   [content |-> <<"4", "K", "\n">>, valid |-> FALSE, number |-> 0],
   [content |-> <<"\n">>, valid |-> FALSE, number |-> 0],
   [content |-> <<>>, valid |-> FALSE, number |-> 0]}

SingleFlags == [AllDisabled EXCEPT !.OstEnabled = extended]

SingleProcSources == newLustreProcFsSource(SingleFlags)

SingleSysSources == newLustreSysSource(SingleFlags)

\* the single-value files of the fixtures below a location
SingleFixtures(location) ==
  {Fixtures[i] : i \in {j \in DOMAIN Fixtures :
                          Fixtures[j].single /\ HasPrefix(Fixtures[j].path, location)}}

SingleFile(fixture, text, readable) ==
  [path |-> fixture.path, group |-> fixture.group, name |-> fixture.name,
   state |-> IF readable /\ text.valid THEN "good" ELSE "broken",
   readable |-> readable,
   content |-> IF readable THEN text.content ELSE <<>>]

InitSingle ==
  /\ pc = "call"
  /\ input \in
       {[fn |-> "single", kind |-> "procfs", source |-> s, text |-> t,
         file |-> SingleFile(x, t, r)] :
          s \in SingleProcSources, x \in SingleFixtures(ProcLocation), t \in SingleTexts,
          r \in BOOLEAN}
       \cup {[fn |-> "single", kind |-> "sysfs", source |-> s, text |-> t,
              file |-> SingleFile(x, t, r)] :
               s \in SingleSysSources, x \in SingleFixtures(SysLocation), t \in SingleTexts,
               r \in BOOLEAN}
  /\ output = None

ProcFsUpdateSingle ==
  /\ pc = "call"
  /\ input.fn = "single" /\ input.kind = "procfs"
  /\ output' = [call |-> "Update",
                ret |-> UpdateFrom("procfs", input.source, <<input.file>>, 1)]
  /\ pc' = "done"
  /\ UNCHANGED input

SysFsUpdateSingle ==
  /\ pc = "call"
  /\ input.fn = "single" /\ input.kind = "sysfs"
  /\ output' = [call |-> "Update",
                ret |-> UpdateFrom("sysfs", input.source, <<input.file>>, 1)]
  /\ pc' = "done"
  /\ UNCHANGED input

NextSingle ==
  \/ ProcFsUpdateSingle
  \/ SysFsUpdateSingle

SpecSingle == InitSingle /\ [][NextSingle]_vars

(***************************************************************************)
(* Claims about single-value files (checked under SpecSingle)              *)
(***************************************************************************)
\* C24: the text of a single-value file, surrounding whitespace trimmed, is
\* parsed as one number and sent as exactly one observation with the labels
\* (component, target); if the file cannot be read or the trimmed text is no
\* number, nothing is sent for the path and Update returns an error
C24_SingleValue ==
  (pc = "done" /\ input.fn = "single")
  => /\ output.ret.kind = "ret"
     /\ IF input.file.readable /\ input.text.valid
        THEN /\ ~output.ret.err
             /\ Len(output.ret.sent) = 1
             /\ output.ret.sent[1].labels = <<"component", "target">>
             /\ Len(output.ret.sent[1].labelValues) = 2
             /\ output.ret.sent[1].labelValues[1] = "ost"
             /\ output.ret.sent[1].value = FloatOfNat(input.text.number)
        ELSE /\ output.ret.err
             /\ output.ret.sent = <<>>

\* a padded number has been sent
C24_Witness ==
  /\ pc = "done" /\ input.fn = "single" /\ input.kind = "procfs"
  /\ input.file.readable
  /\ input.text.content = <<" ", "3", "5", " ", "\n">>
  /\ Len(output.ret.sent) = 1
  /\ output.ret.sent[1].value = FloatOfNat(35)

\* a text that is no number has ended Update with an error
C24_WitnessError ==
  /\ pc = "done" /\ input.fn = "single" /\ input.kind = "sysfs"
  /\ input.file.readable
  /\ input.text.content = <<"1", " ", "2", "\n">>
  /\ output.ret.err
  /\ output.ret.sent = <<>>

(***************************************************************************)
(* Claims about a worker that never returns (checked under SpecCollectFair)*)
(***************************************************************************)
\* the Update of the source returns, with an error or without, once its
\* observations are sent
UpdateReturns(name) ==
  name \in DOMAIN input.sourceList /\ input.sourceList[name].end \in {"nil", "error"}

\* the Update of the source is stuck in a file read or an external command
StuckInUpdate(name) ==
  name \in DOMAIN input.sourceList /\ input.sourceList[name].end = "stuck"

\* the Update of the source is blocked in a send that the reader of the
\* channel does not accept
StuckInSend(name) ==
  /\ name \in DOMAIN input.sourceList
  /\ pc.worker[name] = "update"
  /\ output.sent[name] < input.sourceList[name].sends
  /\ ~SinkAccepts

\* every worker whose Update returns has finished it and recorded its
\* duration, or a panic has ended the process
OthersFinished ==
  \/ pc.main = "crashed"
  \/ \A name \in SourceNames : UpdateReturns(name) => WorkerFinished(name)

\* the pass is not complete as long as a worker has not ended
NotCompleteWhileStuck ==
  input.fn = "Collect" =>
    [](\A name \in SourceNames :
         (StuckInUpdate(name) \/ StuckInSend(name))
           => pc.main \notin {"durations", "returned"})

C25_WitnessSink ==
  /\ input.fn = "Collect"
  /\ \E a, b \in SourceNames :
       a # b /\ StuckInSend(a) /\ StuckInSend(b) /\ UpdateReturns(b)

(***************************************************************************)
(* Update over trees with failing files: the sources of PassFlags and      *)
(* every tree of the chosen fixtures, each file absent, good or broken     *)
(***************************************************************************)
\* the fixtures of the trees: job_stats, num_exports and stats of one target
\* and num_exports of a second one below /proc, all files below /sys
FailureFixtures(location) ==
  {i \in DOMAIN Fixtures :
     /\ HasPrefix(Fixtures[i].path, location)
     /\ location = ProcLocation =>
          /\ Fixtures[i].group = <<"o","b","d","f","i","l","t","e","r","/","*","-","O","S","T","*">>
          /\ Fixtures[i].name \in {<<"j","o","b","_","s","t","a","t","s">>, <<"n","u","m","_","e","x","p","o","r","t","s">>, <<"s","t","a","t","s">>}}

FailureTrees(location) ==
  {LET present == SortedSeq({i \in FailureFixtures(location) : st[i] # "absent"})
   IN [k \in 1..Len(present) |-> FileOf(Fixtures[present[k]], st[present[k]])] :
     st \in [FailureFixtures(location) -> {"absent", "good", "broken"}]}

InitFailure ==
  /\ pc = "call"
  /\ input \in
       {[fn |-> "UpdateFailing", kind |-> "procfs", source |-> s, fs |-> fs] :
          s \in newLustreProcFsSource(PassFlags), fs \in FailureTrees(ProcLocation)}
       \cup {[fn |-> "UpdateFailing", kind |-> "sysfs", source |-> s, fs |-> fs] :
               s \in newLustreSysSource(PassFlags), fs \in FailureTrees(SysLocation)}
  /\ output = None

ProcFsUpdateFailing ==
  /\ pc = "call"
  /\ input.fn = "UpdateFailing" /\ input.kind = "procfs"
  /\ output' = [call |-> "Update", ret |-> UpdateFrom("procfs", input.source, input.fs, 1)]
  /\ pc' = "done"
  /\ UNCHANGED input

SysFsUpdateFailing ==
  /\ pc = "call"
  /\ input.fn = "UpdateFailing" /\ input.kind = "sysfs"
  /\ output' = [call |-> "Update", ret |-> UpdateFrom("sysfs", input.source, input.fs, 1)]
  /\ pc' = "done"
  /\ UNCHANGED input

NextFailure ==
  \/ ProcFsUpdateFailing
  \/ SysFsUpdateFailing

SpecFailure == InitFailure /\ [][NextFailure]_vars

(***************************************************************************)
(* Claims about the first failure of a pass (checked under SpecFailure)    *)
(***************************************************************************)
\* the files Update visits, in order: for every template in the order of the
\* source, the paths of its glob in the order of the glob
Visits(s, fs) ==
  Concat([k \in 1..Len(s.lustreProcMetrics) |->
            LET paths == PathsOf(s, s.lustreProcMetrics[k], fs)
            IN [j \in 1..Len(paths) |-> [metric |-> s.lustreProcMetrics[k],
                                         file |-> paths[j]]]])

\* what each visit sends and whether it fails
RECURSIVE VisitResults(_, _, _)
VisitResults(kind, visits, i) ==
  IF i > Len(visits) THEN <<>>
  ELSE <<IF kind = "procfs" THEN ProcFsPath(visits[i].metric, visits[i].file)
         ELSE SysFsPath(visits[i].metric, visits[i].file)>>
         \o VisitResults(kind, visits, i + 1)

FailingVisits(results) == {i \in 1..Len(results) : results[i].err}

\* the visits that take place: all, or those up to the first failing one
LastVisit(results) ==
  IF FailingVisits(results) = {} THEN Len(results) ELSE Min(FailingVisits(results))

\* the error and the observations of a pass that ends at the first failure
EndsAtFirstFailure(ret, results) ==
  /\ ret.err = (FailingVisits(results) # {})
  /\ ret.sent = Concat([i \in 1..LastVisit(results) |-> results[i].sent])

\* C26: the first file whose read or parse fails ends the pass of its source:
\* Update returns the error, what the visits before it sent stays sent, and
\* nothing of a later path or a later template is sent; without a failing
\* file every visit sends and Update returns nil
C26_FirstFailureEndsPass ==
  (pc = "done" /\ input.fn = "UpdateFailing")
  => /\ output.ret.kind = "ret"
     /\ EndsAtFirstFailure(output.ret,
                           VisitResults(input.kind, Visits(input.source, input.fs), 1))

LaterVisitLeftOut(results) ==
  \E i \in 1..Len(results) : i > LastVisit(results) /\ Len(results[i].sent) > 0

\* a pass that ended at a failing file after observations were sent, and
\* with a later visit left out that would have sent observations
C26_Witness ==
  /\ pc = "done" /\ input.fn = "UpdateFailing" /\ input.kind = "procfs"
  /\ output.ret.kind = "ret" /\ output.ret.err
  /\ Len(output.ret.sent) > 0
  /\ LaterVisitLeftOut(VisitResults(input.kind, Visits(input.source, input.fs), 1))

(***************************************************************************)
(* One path of Update over a file with a field that is no number or with a *)
(* key that is repeated: stats, brw_stats and job_stats files of an object *)
(* storage target, and the changelog text                                  *)
(***************************************************************************)
\* texts of a count: a number, and a text that is no number
CountTexts == {<<"7">>, <<"x">>}

\* a stats file with the given count of read_bytes samples and of ping
BadStatsText(readSamples, ping) ==
  <<"s","n","a","p","s","h","o","t","_","t","i","m","e"," ","1","4","7","9","4","1","0","0","6","1",".","1","7","2","4","1","9"," ","s","e","c","s",".","u","s","e","c","s","\n","r","e","a","d","_","b","y","t","e","s"," ">>
    \o readSamples \o <<" ","s","a","m","p","l","e","s"," ","[","b","y","t","e","s","]"," ","4","0","9","6"," ","8","1","9","2"," ","2","0","4","8","0","\n","w","r","i","t","e","_","b","y","t","e","s"," ","2"," ","s","a","m","p","l","e","s"," ","[","b","y","t","e","s","]"," ","1"," ","2"," ","3","\n","c","o","n","n","e","c","t"," ","1"," ","s","a","m","p","l","e","s"," ","[","r","e","q","s","]","\n","p","i","n","g"," ">>
    \o ping \o <<" ","s","a","m","p","l","e","s"," ","[","r","e","q","s","]","\n">>

\* a brw_stats file with the section of the given title: two rows with the
\* given size labels and read and write counts
BRWTextOf(title, sizes, counts) ==
  title \o <<" "," "," "," "," "," "," "," ","r","p","c","s"," "," ","%"," ","c","u","m"," ","%"," ","|"," "," ","r","p","c","s"," "," "," "," "," "," "," "," ","%"," ","c","u","m"," ","%","\n">>
    \o sizes[1] \o <<":","\t","\t"," ">> \o counts[1] \o <<" ","5","0"," ","5","0"," "," "," ","|"," "," "," "," ">> \o counts[2] \o <<" ","5","0"," ","5","0","\n">>
    \o sizes[2] \o <<":","\t","\t"," ">> \o counts[3] \o <<" ","5","0"," ","1","0","0"," "," "," ","|"," "," "," "," ">> \o counts[4] \o <<" ","5","0"," ","1","0","0","\n">>

BadBRWText(title, counts) == BRWTextOf(title, <<<<"1">>, <<"8">>>>, counts)

BadFieldTemplates(filename) ==
  {t \in ExtendedProcTemplates :
     /\ t.source = "ost"
     /\ t.filename = filename
     /\ t.path \in {<<"o","b","d","f","i","l","t","e","r","/","*","-","O","S","T","*">>, <<"o","s","d","-","*","/","*","-","O","S","T","*">>}}

BadFieldInputs ==
  {[fn |-> "badField", kind |-> "stats", metric |-> t, counts |-> c,
    file |-> [path |-> <<"/","p","r","o","c","/","f","s","/","l","u","s","t","r","e","/","o","b","d","f","i","l","t","e","r","/","l","u","s","t","r","e","-","O","S","T","0","0","0","0","/","s","t","a","t","s">>,
              readable |-> TRUE, content |-> BadStatsText(c[1], c[2])]] :
     t \in BadFieldTemplates(<<"s","t","a","t","s">>), c \in [1..2 -> CountTexts]}
  \cup
  {[fn |-> "badField", kind |-> "brw_stats", metric |-> t, counts |-> c,
    file |-> [path |-> <<"/","p","r","o","c","/","f","s","/","l","u","s","t","r","e","/","o","s","d","-","l","d","i","s","k","f","s","/","l","u","s","t","r","e","-","O","S","T","0","0","0","0","/","b","r","w","_","s","t","a","t","s">>,
              readable |-> TRUE,
              content |-> BadBRWText(MetricBlockTitle(t.helpText), c)]] :
     t \in BadFieldTemplates(<<"b","r","w","_","s","t","a","t","s">>), c \in [1..4 -> CountTexts]}

\* changelog texts with a reader line, with and without the mandatory lines
BadChangelogs ==
  {[fn |-> "badField", kind |-> "changelog", changelog |-> c,
    out |-> [kind |-> "data", data |-> RenderChangelog(c)]] :
     c \in {x \in Changelogs : Len(x.readers) = 1}}

\* a job_stats file of two blocks with the given job ids
TwoJobsText(ids) ==
  RenderJobFile(JobFile(TRUE,
    [b \in 1..2 |-> JobBlock(TRUE, <<" ">>, ids[b], <<>>,
                             IOLines(<<1, 2, 3, 4>>, <<5, 6, 7, 8>>)
                               \o <<Line(JobOperations[1], <<b>>, Reqs)>>,
                             Compact)], "newline"))

\* files in which a size label or a job id can occur twice, and changelog
\* texts of two reader lines, the same reader id twice among them
RepeatedKeyInputs ==
  {[fn |-> "duplicates", kind |-> "brw_stats", source |-> s, keys |-> k,
    file |-> [path |-> <<"/","p","r","o","c","/","f","s","/","l","u","s","t","r","e","/","o","s","d","-","l","d","i","s","k","f","s","/","l","u","s","t","r","e","-","O","S","T","0","0","0","0","/","b","r","w","_","s","t","a","t","s">>,
              readable |-> TRUE,
              content |-> BRWTextOf(MetricBlockTitle("pagesPerBlockRWHelp"), k,
                                    <<<<"7">>, <<"7">>, <<"7">>, <<"7">>>>)]] :
     s \in SingleProcSources, k \in [1..2 -> {<<"1">>, <<"8">>}]}
  \cup
  {[fn |-> "duplicates", kind |-> "job_stats", source |-> s, keys |-> k,
    file |-> [path |-> <<"/","p","r","o","c","/","f","s","/","l","u","s","t","r","e","/","o","b","d","f","i","l","t","e","r","/","l","u","s","t","r","e","-","O","S","T","0","0","0","0","/","j","o","b","_","s","t","a","t","s">>,
              readable |-> TRUE, content |-> TwoJobsText(k)]] :
     s \in SingleProcSources, k \in [1..2 -> {JobIdA, JobIdB}]}
  \cup
  {[fn |-> "duplicates", kind |-> "changelog", changelog |-> c,
    out |-> [kind |-> "data", data |-> RenderChangelog(c)]] :
     c \in {x \in Changelogs :
              /\ Len(x.readers) = 2
              /\ x.target = [present |-> TRUE, name |-> <<"l","u","s","t","r","e","-","M","D","T","0","0","0","0">>]
              /\ x.index.present}}

InitBadField ==
  /\ pc = "call"
  /\ input \in BadFieldInputs \cup BadChangelogs \cup RepeatedKeyInputs
  /\ output = None

\* one round of the loop over the paths in lustreProcFsSource.Update
UpdateOnePath ==
  /\ pc = "call"
  /\ input.fn = "badField" /\ input.kind \in {"stats", "brw_stats"}
  /\ output' = [call |-> "Update", ret |-> ProcFsPath(input.metric, input.file)]
  /\ pc' = "done"
  /\ UNCHANGED input

\* lustreProcFsSource.Update over a tree of the one file
UpdateRepeatedKeys ==
  /\ pc = "call"
  /\ input.fn = "duplicates" /\ input.kind \in {"brw_stats", "job_stats"}
  /\ output' = [call |-> "Update",
                ret |-> UpdateFrom("procfs", input.source, <<input.file>>, 1)]
  /\ pc' = "done"
  /\ UNCHANGED input

\* lustreLctlSource.Update with the one handler of the changelog users
UpdateChangelog ==
  /\ pc = "call"
  /\ input.fn \in {"badField", "duplicates"} /\ input.kind = "changelog"
  /\ output' = [call |-> "Update",
                ret |-> LctlUpdate([metricCreator |->
                                      generateMDTMetricCreator(<<>>, extended)],
                                   input.out)]
  /\ pc' = "done"
  /\ UNCHANGED input

NextBadField ==
  \/ UpdateOnePath
  \/ UpdateRepeatedKeys
  \/ UpdateChangelog

SpecBadField == InitBadField /\ [][NextBadField]_vars

(***************************************************************************)
(* Claims about what a failing parse has sent (checked under SpecBadField) *)
(***************************************************************************)
\* C27 as stated: when the parse of a file returns an error, nothing derived
\* from the file has been sent, whatever the format of the file
C27_AllOrNothing ==
  (pc = "done" /\ input.fn = "badField" /\ output.ret.kind = "ret" /\ output.ret.err)
  => output.ret.sent = <<>>

\* the counts of a histogram section before the first one that is no number
BadCounts == {i \in 1..4 : input.counts[i] = <<"x">>}

CountsBeforeBad == IF BadCounts = {} THEN 4 ELSE Min(BadCounts) - 1

\* C27 (amended): a parse of a stats or changelog text that returns an error
\* has sent nothing; a parse of a histogram file returns an error exactly
\* when a count is no number and has then sent the buckets before the first
\* such count, in the order of the rows, read before write
C27_AllOrNothingButHistogram ==
  (pc = "done" /\ input.fn = "badField")
  => /\ output.ret.kind = "ret"
     /\ input.kind = "stats" =>
          /\ output.ret.err => output.ret.sent = <<>>
          /\ input.metric.hasMultipleVals => (output.ret.err = (input.counts[2] = <<"x">>))
          /\ ~input.metric.hasMultipleVals => (output.ret.err => (input.counts[1] = <<"x">>))
     /\ input.kind = "changelog" =>
          /\ output.ret.err => output.ret.sent = <<>>
          /\ ~input.changelog.index.present => output.ret.err
     /\ input.kind = "brw_stats" =>
          /\ output.ret.err = (BadCounts # {})
          /\ Len(output.ret.sent) = CountsBeforeBad
          /\ \A i \in 1..Len(output.ret.sent) :
               /\ output.ret.sent[i].value = FloatOfNat(7)
               /\ output.ret.sent[i].labelValues[3] = (IF i % 2 = 1 THEN "read" ELSE "write")
               /\ output.ret.sent[i].labelValues[4] = (IF i <= 2 THEN <<"1">> ELSE <<"8">>)

\* a histogram parse has failed at the count of the second row after it has
\* sent the two buckets of the first row
C27_Witness ==
  /\ pc = "done" /\ input.fn = "badField" /\ input.kind = "brw_stats"
  /\ input.counts = <<<<"7">>, <<"7">>, <<"x">>, <<"7">>>>
  /\ output.ret.err
  /\ Len(output.ret.sent) = 2

\* a stats parse of the operation style has failed at the count of ping, after
\* the line of connect, and has sent nothing
C27_WitnessStats ==
  /\ pc = "done" /\ input.fn = "badField" /\ input.kind = "stats"
  /\ input.metric.hasMultipleVals
  /\ input.counts[2] = <<"x">>
  /\ output.ret.err
  /\ output.ret.sent = <<>>

\* a parse of the read samples has failed and has sent nothing
C27_WitnessStatsIO ==
  /\ pc = "done" /\ input.fn = "badField" /\ input.kind = "stats"
  /\ ~input.metric.hasMultipleVals
  /\ output.ret.err

\* a changelog text with a reader line and without the index line has failed
C27_WitnessChangelog ==
  /\ pc = "done" /\ input.fn = "badField" /\ input.kind = "changelog"
  /\ input.changelog.target.present /\ ~input.changelog.index.present
  /\ output.ret.err /\ output.ret.sent = <<>>

(***************************************************************************)
(* Claims about the field-index lookups (checked under SpecStats)          *)
(***************************************************************************)
\* C28: the stats extractors of the IO style and of the operation style never
\* index past the end of the split line: whatever the text, they return an
\* error or their observations
C28_StatsLookupInRange ==
  (pc = "done" /\ input.fn = "statsFile") => output.ret.kind # "panic"

\* the IO extractor of job_stats has indexed past the numeric tokens of the
\* matched line (reached under SpecJobBlock)
C28_JobLookupOutOfRange ==
  /\ pc = "done" /\ input.fn = "jobBlock"
  /\ output.call = "getJobStatsIOMetrics"
  /\ output.ret.kind = "panic"

\* parseFileElements has indexed before the first segment of the path
\* (reached under SpecPath)
C28_PathLookupOutOfRange ==
  /\ pc = "done" /\ input.fn = "parseFileElements"
  /\ Len(input.segs) < input.depth + 2
  /\ output.kind = "panic"

(***************************************************************************)
(* Claims about repeated keys (checked under SpecBadField)                 *)
(***************************************************************************)
\* the series an observation belongs to
SeriesOf(m) == <<m.name, m.labelValues>>

C29_DuplicateJob ==
  /\ pc = "done" /\ input.fn = "duplicates" /\ input.kind = "job_stats"
  /\ input.keys = <<JobIdA, JobIdA>>
  /\ Len(output.ret.sent) >= 2
  /\ SeriesOf(output.ret.sent[1]) = SeriesOf(output.ret.sent[2])

\* a size label on two rows has been sent twice for the read side
C29_DuplicateSize ==
  /\ pc = "done" /\ input.fn = "duplicates" /\ input.kind = "brw_stats"
  /\ input.keys = <<<<"8">>, <<"8">>>>
  /\ Len(output.ret.sent) = 4
  /\ SeriesOf(output.ret.sent[1]) = SeriesOf(output.ret.sent[3])
  /\ SeriesOf(output.ret.sent[2]) = SeriesOf(output.ret.sent[4])

\* the keys of the input, a size label, a job id or a reader id, occur once
KeysDistinct ==
  IF input.kind = "changelog"
  THEN input.changelog.readers[1].id # input.changelog.readers[2].id
  ELSE input.keys[1] # input.keys[2]

ChangelogObservations(metricList, name, labelValues) ==
  {i \in 1..Len(metricList) :
     metricList[i].name = name /\ metricList[i].labelValues = labelValues}

\* C30: in the observations of a text with the blocks of two targets, every
\* reader has its index and its idle time under the target of its own block
\* and under no other, and every target has its current index with the value
\* of the "current index" line of its own block
C30_ReadersUnderOwnTarget ==
  (pc = "done" /\ input.fn = "changelogs")
  => /\ output.ret.kind = "ret"
     /\ ~output.ret.err
     /\ \A b \in 1..Len(input.blocks) :
          LET block == input.blocks[b]
          IN /\ \E i \in ChangelogObservations(output.ret.metricList, "changelog_current_index",
                                        <<"mdt", block.target.name>>) :
                  output.ret.metricList[i].value = FloatOfNat(block.index.n)
             /\ \A r \in 1..Len(block.readers) :
                  /\ ChangelogObservations(output.ret.metricList, "changelog_user_index",
                                    <<"mdt", block.target.name, block.readers[r].id>>) # {}
                  /\ ChangelogObservations(output.ret.metricList, "changelog_user_idle_time",
                                    <<"mdt", block.target.name, block.readers[r].id>>) # {}
     /\ \A i \in 1..Len(output.ret.metricList) :
          \E b \in 1..Len(input.blocks) :
            /\ output.ret.metricList[i].labelValues[2] = input.blocks[b].target.name
            /\ Len(output.ret.metricList[i].labelValues) = 3 =>
                 \E r \in 1..Len(input.blocks[b].readers) :
                   input.blocks[b].readers[r].id = output.ret.metricList[i].labelValues[3]

\* the reader of the second target has been sent under the name of the
\* first target, and the second target has no current index
C30_ReaderUnderFirstTarget ==
  /\ pc = "done" /\ input.fn = "changelogs"
  /\ input.blocks[1].readers = <<>>
  /\ Len(input.blocks[2].readers) = 1
  /\ ~output.ret.err
  /\ Len(output.ret.metricList) = 3
  /\ \A i \in 1..3 :
       output.ret.metricList[i].labelValues[2] = input.blocks[1].target.name
  /\ output.ret.metricList[2].labelValues[3] = input.blocks[2].readers[1].id

====
